---- MODULE Spec2Model ----
(***************************************************************************)
(* A model of Json::Value (src/src/Value.cpp): the decoder FromEncoding,   *)
(* the encoder ToEncoding with its per-value encoding cache, and the       *)
(* mutation API working on values, references and the shared "null"        *)
(* sentinel.                                                               *)
(*                                                                         *)
(* Text is a sequence of Unicode code points (Utf8::UnicodeCodePoint).     *)
(* A std::string is modelled by the code points its UTF-8 bytes decode to; *)
(* Utf8::Encode/Decode are an external codec (spec section 6).             *)
(***************************************************************************)
EXTENDS Integers, Sequences, FiniteSets, TLC

VARIABLES
    text,       \* codec runs: the text handed to FromEncoding
    original,   \* codec runs: the value a round trip starts from
    value,      \* codec runs: the value FromEncoding returned
    encoded,    \* codec runs: the text ToEncoding returned
    pc,         \* codec runs: position of the run
    slots,      \* value machine: the program's named Json::Value objects
    null,       \* value machine: the file-scope sentinel `null`
    fault,      \* value machine: set once an operation dereferences a null impl_
    last,       \* value machine: what the last operation was and returned
    steps       \* value machine: number of operations performed

vars == <<text, original, value, encoded, pc, slots, null, fault, last, steps>>
codecVars == <<text, original, value, encoded, pc>>
machineVars == <<slots, null, fault, last, steps>>

----------------------------------------------------------------------------
(* Code points named in Value.cpp *)

QUOTE == 34         \* '"'
BACKSLASH == 92     \* '\\'
COMMA == 44
COLON == 58
LBRACKET == 91
RBRACKET == 93
LBRACE == 123
RBRACE == 125
MINUS == 45
PLUS == 43
DOT == 46
SPACE == 32
LOWER_U == 117
LOWER_E == 101
UPPER_E == 69
DIGIT0 == 48
DIGIT1 == 49
DIGIT9 == 57
UPPER_A == 65
UPPER_F == 70
LOWER_A == 97
LOWER_F == 102
CR == 13
LF == 10

WHITESPACE_CHARACTERS == {32, 9, 13, 10}

\* escaped letter -> character (SPECIAL_ESCAPE_DECODINGS)
SPECIAL_ESCAPE_DECODINGS ==
    (34 :> 34) @@ (92 :> 92) @@ (47 :> 47) @@ (98 :> 8) @@ (102 :> 12)
    @@ (110 :> 10) @@ (114 :> 13) @@ (116 :> 9)

\* character -> escaped letter (SPECIAL_ESCAPE_ENCODINGS)
SPECIAL_ESCAPE_ENCODINGS ==
    (34 :> 34) @@ (92 :> 92) @@ (47 :> 47) @@ (8 :> 98) @@ (12 :> 102)
    @@ (10 :> 110) @@ (13 :> 114) @@ (9 :> 116)

IsDigit(cp) == cp >= DIGIT0 /\ cp <= DIGIT9

----------------------------------------------------------------------------
(* The external Unicode codec.  Utf8::Encode followed by Utf8::Decode gives *)
(* back a valid code point and turns a surrogate or a value above 0x10FFFF  *)
(* into the replacement character U+FFFD.                                   *)

Utf8RoundTrip(cp) ==
    IF (cp >= 55296 /\ cp <= 57343) \/ cp > 1114111 THEN 65533 ELSE cp

----------------------------------------------------------------------------
(* String escaping *)

Nibble(cp, i) == (cp \div (IF i = 0 THEN 4096 ELSE IF i = 1 THEN 256 ELSE IF i = 2 THEN 16 ELSE 1)) % 16

HexDigit(nibble) == IF nibble < 10 THEN nibble + DIGIT0 ELSE (nibble - 10) + UPPER_A

CodePointToFourHexDigits(cp) ==
    [i \in 1..4 |-> HexDigit(Nibble(cp, i - 1))]

\* the text EncodeString appends for one code point of the string
EncodeCodePoint(cp, options) ==
    IF cp = 34 \/ cp = 92 \/ cp < 32
    THEN IF cp \in DOMAIN SPECIAL_ESCAPE_ENCODINGS
         THEN <<BACKSLASH, SPECIAL_ESCAPE_ENCODINGS[cp]>>
         ELSE <<BACKSLASH, LOWER_U>> \o CodePointToFourHexDigits(cp)
    ELSE IF options.escapeNonAscii /\ cp > 127
    THEN IF cp > 65535
         THEN <<BACKSLASH, LOWER_U>>
              \o CodePointToFourHexDigits(55296 + (((cp - 65536) \div 1024) % 1024))
              \o <<BACKSLASH, LOWER_U>>
              \o CodePointToFourHexDigits(56320 + ((cp - 65536) % 1024))
         ELSE <<BACKSLASH, LOWER_U>> \o CodePointToFourHexDigits(cp)
    ELSE <<Utf8RoundTrip(cp)>>

RECURSIVE EncodeStringFrom(_, _, _)
EncodeStringFrom(s, i, options) ==
    IF i > Len(s) THEN <<>>
    ELSE EncodeCodePoint(s[i], options) \o EncodeStringFrom(s, i + 1, options)

EncodeString(s, options) == EncodeStringFrom(s, 1, options)

----------------------------------------------------------------------------
(* String unescaping: the state machine of DecodeString.  `failed` is an   *)
(* early `return false`.                                                   *)

DecodeStringStart ==
    [state |-> 0, cpFromHexDigits |-> 0, firstHalfOfSurrogatePair |-> 0,
     output |-> <<>>, failed |-> FALSE]

HexValue(cp) ==
    IF cp >= DIGIT0 /\ cp <= DIGIT9 THEN cp - DIGIT0
    ELSE IF cp >= UPPER_A /\ cp <= UPPER_F THEN cp - UPPER_A + 10
    ELSE IF cp >= LOWER_A /\ cp <= LOWER_F THEN cp - LOWER_A + 10
    ELSE -1

CombineSurrogatesInBmp(first, second) ==
    ((first - 55296) * 1024) + (second - 56320)

\* The pair is combined in 32-bit unsigned arithmetic; with both halves in
\* D800..DFFF the wrapped sum is the integer sum below (between 0xFC00 and
\* 0x20FFFF), so no reduction modulo 2^32 changes it.
CombineSurrogates(first, second) ==
    ((first - 55296) * 1024) + (second - 56320) + 65536

\* the fourth hex digit has been read (state reached 6)
DecodeStringEscapeDone(st, cpHex) ==
    IF cpHex >= 55296 /\ cpHex <= 57343
    THEN IF st.firstHalfOfSurrogatePair = 0
         THEN [st EXCEPT !.state = 0, !.cpFromHexDigits = cpHex,
                         !.firstHalfOfSurrogatePair = cpHex]
         ELSE [st EXCEPT !.state = 0, !.cpFromHexDigits = cpHex,
                         !.output = @ \o <<Utf8RoundTrip(
                             CombineSurrogates(st.firstHalfOfSurrogatePair, cpHex))>>,
                         !.firstHalfOfSurrogatePair = 0]
    ELSE IF st.firstHalfOfSurrogatePair = 0
    THEN [st EXCEPT !.state = 0, !.cpFromHexDigits = cpHex,
                    !.output = @ \o <<Utf8RoundTrip(cpHex)>>]
    ELSE [st EXCEPT !.failed = TRUE]

DecodeStringStep(st, cp) ==
    IF st.state = 0
    THEN IF cp = BACKSLASH THEN [st EXCEPT !.state = 1]
         ELSE IF st.firstHalfOfSurrogatePair = 0
         THEN [st EXCEPT !.output = @ \o <<Utf8RoundTrip(cp)>>]
         ELSE [st EXCEPT !.failed = TRUE]
    ELSE IF st.state = 1
    THEN IF cp = LOWER_U THEN [st EXCEPT !.state = 2, !.cpFromHexDigits = 0]
         ELSE IF st.firstHalfOfSurrogatePair = 0
         THEN IF cp \notin DOMAIN SPECIAL_ESCAPE_DECODINGS
              THEN [st EXCEPT !.failed = TRUE]
              ELSE [st EXCEPT !.output = @ \o <<SPECIAL_ESCAPE_DECODINGS[cp]>>,
                              !.state = 0]
         ELSE [st EXCEPT !.failed = TRUE]
    ELSE \* states 2..5: a hex digit of \uXXXX
         IF HexValue(cp) < 0 THEN [st EXCEPT !.failed = TRUE]
         ELSE IF st.state + 1 = 6
         THEN DecodeStringEscapeDone(st, st.cpFromHexDigits * 16 + HexValue(cp))
         ELSE [st EXCEPT !.state = @ + 1,
                         !.cpFromHexDigits = @ * 16 + HexValue(cp)]

RECURSIVE DecodeStringFrom(_, _, _)
DecodeStringFrom(s, i, st) ==
    IF i > Len(s) \/ st.failed THEN st
    ELSE DecodeStringFrom(s, i + 1, DecodeStringStep(st, s[i]))

\* the value DecodeString returns after the loop
DecodeStringAccepts(st) ==
    /\ ~st.failed
    /\ st.state # 1
    /\ (st.state < 2 \/ st.state > 5)

\* [ok |-> the bool DecodeString returns, output |-> the unescaped string]
DecodeString(s) ==
    LET st == DecodeStringFrom(s, 1, DecodeStringStart)
    IN [ok |-> DecodeStringAccepts(st), output |-> st.output]

----------------------------------------------------------------------------
(* Decimal numbers too wide for the checker's integers (intmax_t, double)  *)
(* are kept as their digits, most significant first, without leading zero. *)

RECURSIVE DecLessFrom(_, _, _)
DecLessFrom(a, b, i) ==
    IF i > Len(a) THEN FALSE
    ELSE IF a[i] # b[i] THEN a[i] < b[i]
    ELSE DecLessFrom(a, b, i + 1)

\* a < b for two digit sequences without leading zeros
DecLess(a, b) ==
    IF Len(a) # Len(b) THEN Len(a) < Len(b) ELSE DecLessFrom(a, b, 1)

\* std::numeric_limits<intmax_t>::max() and the magnitude of lowest()
INTMAX_MAX == <<9,2,2,3,3,7,2,0,3,6,8,5,4,7,7,5,8,0,7>>
INTMAX_LOWEST_MAGNITUDE == <<9,2,2,3,3,7,2,0,3,6,8,5,4,7,7,5,8,0,8>>
\* std::numeric_limits<int>::max() and the magnitude of lowest()
INT_MAX == <<2,1,4,7,4,8,3,6,4,7>>
INT_LOWEST_MAGNITUDE == <<2,1,4,7,4,8,3,6,4,8>>

\* SystemAbstractions::ToInteger (an external helper): the text is
\* -?(0|[1-9][0-9]*) and its value fits intmax_t.
ToInteger(s) ==
    LET negative == Len(s) > 0 /\ s[1] = MINUS
        body == IF negative THEN Tail(s) ELSE s
        digits == [i \in 1..Len(body) |-> body[i] - DIGIT0]
        wellFormed ==
            /\ Len(body) > 0
            /\ \A i \in 1..Len(body) : IsDigit(body[i])
            /\ (body[1] = DIGIT0 => Len(body) = 1)
    IN  IF ~wellFormed THEN [result |-> "NotANumber", negative |-> FALSE, digits |-> <<0>>]
        ELSE IF (negative /\ DecLess(INTMAX_LOWEST_MAGNITUDE, digits))
                \/ (~negative /\ DecLess(INTMAX_MAX, digits))
        THEN [result |-> "Overflow", negative |-> FALSE, digits |-> <<0>>]
        ELSE [result |-> "Success", negative |-> negative, digits |-> digits]

\* (int)value for an intmax_t value inside the range of int; built from the
\* sign so that the lowest int is reached without negating it
RECURSIVE DigitsToIntFrom(_, _, _, _)
DigitsToIntFrom(negative, digits, i, acc) ==
    IF i > Len(digits) THEN acc
    ELSE DigitsToIntFrom(negative, digits, i + 1,
            IF negative THEN acc * 10 - digits[i] ELSE acc * 10 + digits[i])

DigitsToInt(negative, digits) == DigitsToIntFrom(negative, digits, 1, 0)

\* DecodeAsInteger: [ok |-> type became Integer, integerValue |-> the value]
DecodeAsIntegerOffByOne(codePoints) ==
    LET r == ToInteger(codePoints)
    IN  IF r.result # "Success" THEN [ok |-> FALSE, integerValue |-> 0]
        ELSE IF (r.negative /\ ~DecLess(r.digits, INT_LOWEST_MAGNITUDE))
                \/ (~r.negative /\ ~DecLess(r.digits, INT_MAX))
        THEN [ok |-> FALSE, integerValue |-> 0]
        ELSE [ok |-> TRUE, integerValue |-> DigitsToInt(r.negative, r.digits)]

DecodeAsInteger(codePoints) ==
    LET r == ToInteger(codePoints)
    IN  IF r.result # "Success" THEN [ok |-> FALSE, integerValue |-> 0]
        ELSE IF (r.negative /\ DecLess(INT_LOWEST_MAGNITUDE, r.digits))
                \/ (~r.negative /\ DecLess(INT_MAX, r.digits))
        THEN [ok |-> FALSE, integerValue |-> 0]
        ELSE [ok |-> TRUE, integerValue |-> DigitsToInt(r.negative, r.digits)]

\* sprintf("%i", n)
RECURSIVE NaturalToText(_)
NaturalToText(n) ==
    IF n < 10 THEN <<DIGIT0 + n>>
    ELSE Append(NaturalToText(n \div 10), DIGIT0 + (n % 10))

RECURSIVE NegativeToText(_)
NegativeToText(n) ==
    LET d == (10 - (n % 10)) % 10     \* last digit of the magnitude of n < 0
        rest == (n + d) \div 10
    IN  IF rest = 0 THEN <<DIGIT0 + d>>
        ELSE Append(NegativeToText(rest), DIGIT0 + d)

IntToText(n) == IF n < 0 THEN <<MINUS>> \o NegativeToText(n) ELSE NaturalToText(n)

----------------------------------------------------------------------------
(* DecodeAsFloatingPoint.  The double is kept as the decimal it was read   *)
(* from: sign, magnitude digits, fraction digits, exponent sign and digits. *)
(* The back-computed overflow test ((intmax_t)x / 10 != old) passes while   *)
(* the double holds the digits exactly; beyond FP_EXACT_DIGITS digits its   *)
(* outcome depends on rounding and, past the range of intmax_t, on an       *)
(* undefined conversion, so it is the parameter castOk.                     *)

FP_EXACT_DIGITS == 15

RECURSIVE StripLeadingZeros(_)
StripLeadingZeros(d) ==
    IF Len(d) > 1 /\ d[1] = 0 THEN StripLeadingZeros(Tail(d)) ELSE d

OverflowCheckPasses(digits, castOk) ==
    Len(StripLeadingZeros(digits)) <= FP_EXACT_DIGITS \/ castOk

DecodeAsFloatingPointStart ==
    [index |-> 1, state |-> 0, negativeMagnitude |-> FALSE, negativeExponent |-> FALSE,
     magnitude |-> <<>>, fraction |-> <<>>, exponent |-> <<>>, failed |-> FALSE]

\* one pass of the switch inside the while loop, at codePoints[st.index] = cp
DecodeAsFloatingPointStep(st, cp, castOk) ==
    CASE st.state = 0 ->
            IF cp = MINUS
            THEN [st EXCEPT !.negativeMagnitude = TRUE, !.index = @ + 1, !.state = 1]
            ELSE [st EXCEPT !.state = 1]
      [] st.state = 1 ->
            IF cp = DIGIT0 THEN [st EXCEPT !.state = 2, !.magnitude = <<0>>, !.index = @ + 1]
            ELSE IF cp >= DIGIT1 /\ cp <= DIGIT9
            THEN [st EXCEPT !.state = 3, !.magnitude = <<cp - DIGIT0>>, !.index = @ + 1]
            ELSE [st EXCEPT !.failed = TRUE]
      [] st.state = 2 ->
            IF cp = DOT THEN [st EXCEPT !.state = 4, !.index = @ + 1]
            ELSE IF cp = LOWER_E \/ cp = UPPER_E THEN [st EXCEPT !.state = 6, !.index = @ + 1]
            ELSE [st EXCEPT !.failed = TRUE]
      [] st.state = 3 ->
            IF IsDigit(cp)
            THEN IF OverflowCheckPasses(Append(st.magnitude, cp - DIGIT0), castOk)
                 THEN [st EXCEPT !.magnitude = Append(@, cp - DIGIT0), !.index = @ + 1]
                 ELSE [st EXCEPT !.failed = TRUE]
            ELSE IF cp = DOT THEN [st EXCEPT !.state = 4, !.index = @ + 1]
            ELSE IF cp = LOWER_E \/ cp = UPPER_E THEN [st EXCEPT !.state = 6, !.index = @ + 1]
            ELSE [st EXCEPT !.failed = TRUE]
      [] st.state = 4 ->
            IF IsDigit(cp)
            THEN [st EXCEPT !.fraction = Append(@, cp - DIGIT0), !.state = 5, !.index = @ + 1]
            ELSE [st EXCEPT !.failed = TRUE]
      [] st.state = 5 ->
            IF IsDigit(cp)
            THEN [st EXCEPT !.fraction = Append(@, cp - DIGIT0), !.index = @ + 1]
            ELSE IF cp = LOWER_E \/ cp = UPPER_E THEN [st EXCEPT !.state = 6, !.index = @ + 1]
            ELSE [st EXCEPT !.failed = TRUE]
      [] st.state = 6 ->
            IF cp = MINUS
            THEN [st EXCEPT !.negativeExponent = TRUE, !.index = @ + 1, !.state = 7]
            ELSE IF cp = PLUS THEN [st EXCEPT !.index = @ + 1, !.state = 7]
            ELSE [st EXCEPT !.state = 7]
      [] OTHER -> \* state 7
            IF IsDigit(cp)
            THEN IF OverflowCheckPasses(Append(st.exponent, cp - DIGIT0), castOk)
                 THEN [st EXCEPT !.exponent = Append(@, cp - DIGIT0), !.index = @ + 1]
                 ELSE [st EXCEPT !.failed = TRUE]
            ELSE [st EXCEPT !.failed = TRUE]

RECURSIVE DecodeAsFloatingPointLoop(_, _, _)
DecodeAsFloatingPointLoop(codePoints, st, castOk) ==
    IF st.failed \/ st.index > Len(codePoints) THEN st
    ELSE DecodeAsFloatingPointLoop(codePoints,
            DecodeAsFloatingPointStep(st, codePoints[st.index], castOk), castOk)

\* the test after the loop that sets type = FloatingPoint
DecodeAsFloatingPointAccepts(st) ==
    /\ ~st.failed
    /\ st.state >= 2
    /\ st.state # 4
    /\ st.state # 6

NoFloat ==
    [negativeMagnitude |-> FALSE, magnitude |-> <<>>, fraction |-> <<>>,
     negativeExponent |-> FALSE, exponent |-> <<>>]

\* [ok |-> type became FloatingPoint, floatingPointValue |-> the decimal read]
DecodeAsFloatingPoint(codePoints, castOk) ==
    LET st == DecodeAsFloatingPointLoop(codePoints, DecodeAsFloatingPointStart, castOk)
    IN  IF DecodeAsFloatingPointAccepts(st)
        THEN [ok |-> TRUE,
              floatingPointValue |->
                [negativeMagnitude |-> st.negativeMagnitude, magnitude |-> st.magnitude,
                 fraction |-> st.fraction, negativeExponent |-> st.negativeExponent,
                 exponent |-> st.exponent]]
        ELSE [ok |-> FALSE, floatingPointValue |-> NoFloat]

----------------------------------------------------------------------------
(* Json::Value.  `impl` is FALSE when impl_ is a null pointer (the value   *)
(* has been moved from).  The union keeps one payload per type; the fields *)
(* of the other types stay at their defaults.  objectValue is the std::map *)
(* as a function from its keys; it is walked in ascending key order.       *)

EmptyImpl ==
    [impl |-> TRUE, type |-> "Invalid", booleanValue |-> FALSE, integerValue |-> 0,
     floatingPointValue |-> NoFloat, stringValue |-> <<>>, arrayValue |-> <<>>,
     objectValue |-> <<>>, encoding |-> <<>>]

\* a Value whose impl_ was moved away
NoImpl == [EmptyImpl EXCEPT !.impl = FALSE]

\* Value(Type type)
ValueOfType(type) == [EmptyImpl EXCEPT !.type = type]
\* Value(std::nullptr_t), Value(bool), Value(int), Value(const std::string&)
ValueNull == [EmptyImpl EXCEPT !.type = "Null"]
ValueBoolean(b) == [EmptyImpl EXCEPT !.type = "Boolean", !.booleanValue = b]
ValueInteger(n) == [EmptyImpl EXCEPT !.type = "Integer", !.integerValue = n]
ValueString(s) == [EmptyImpl EXCEPT !.type = "String", !.stringValue = s]

GetType(v) == IF ~v.impl THEN "Invalid" ELSE v.type

\* A size_t is kept as its four 16-bit words, most significant first.
\* (int)value: the low 32 bits read as a two's complement int
IntOfSize(words) ==
    (IF words[3] >= 32768 THEN words[3] - 65536 ELSE words[3]) * 65536 + words[4]
\* (size_t)integerValue for integerValue >= 0
SizeOfInt(n) == <<0, 0, n \div 65536, n % 65536>>

\* Value(size_t)
ValueSize(words) == [EmptyImpl EXCEPT !.type = "Integer", !.integerValue = IntOfSize(words)]

\* operator bool, operator std::string, operator int and operator size_t of
\* a Value that is not a FloatingPoint
OperatorBool(v) == IF GetType(v) = "Boolean" THEN v.booleanValue ELSE FALSE
OperatorString(v) == IF GetType(v) = "String" THEN v.stringValue ELSE <<>>
OperatorInt(v) == IF GetType(v) = "Integer" THEN v.integerValue ELSE 0
OperatorSize(v) ==
    IF GetType(v) = "Integer" /\ v.integerValue >= 0 THEN SizeOfInt(v.integerValue)
    ELSE SizeOfInt(0)

GetSize(v) ==
    IF GetType(v) = "Array" THEN Len(v.arrayValue)
    ELSE IF GetType(v) = "Object" THEN Cardinality(DOMAIN v.objectValue)
    ELSE 0

\* std::string operator< on two keys
RECURSIVE KeyLessFrom(_, _, _)
KeyLessFrom(a, b, i) ==
    IF i > Len(a) THEN i <= Len(b)
    ELSE IF i > Len(b) THEN FALSE
    ELSE IF a[i] # b[i] THEN a[i] < b[i]
    ELSE KeyLessFrom(a, b, i + 1)

KeyLess(a, b) == KeyLessFrom(a, b, 1)

\* the keys of a std::map in iteration order
RECURSIVE SortedKeys(_)
SortedKeys(keys) ==
    IF keys = {} THEN <<>>
    ELSE LET first == CHOOSE k \in keys : \A other \in keys \ {k} : KeyLess(k, other)
         IN  <<first>> \o SortedKeys(keys \ {first})

\* GetKeys()
GetKeys(v) == IF GetType(v) = "Object" THEN SortedKeys(DOMAIN v.objectValue) ELSE <<>>

\* Has(key)
Has(v, key) == GetType(v) = "Object" /\ key \in DOMAIN v.objectValue

\* some Value in the tree has a null impl_
RECURSIVE HasNullImpl(_)
HasNullImpl(v) ==
    \/ ~v.impl
    \/ /\ v.type = "Array"
       /\ \E i \in 1..Len(v.arrayValue) : HasNullImpl(v.arrayValue[i])
    \/ /\ v.type = "Object"
       /\ \E k \in DOMAIN v.objectValue : HasNullImpl(v.objectValue[k])

\* Impl::CopyFrom on a fresh Impl (copy construction): the payload is copied
\* deeply, the cached encoding is not copied.  Reads other.impl_, so it is
\* defined only when no Value of the tree has a null impl_.
RECURSIVE CopyFrom(_)
CopyFrom(other) ==
    CASE other.type = "Boolean" -> ValueBoolean(other.booleanValue)
      [] other.type = "Integer" -> ValueInteger(other.integerValue)
      [] other.type = "FloatingPoint" ->
            [EmptyImpl EXCEPT !.type = "FloatingPoint",
                              !.floatingPointValue = other.floatingPointValue]
      [] other.type = "String" -> ValueString(other.stringValue)
      [] other.type = "Array" ->
            [EmptyImpl EXCEPT !.type = "Array",
                !.arrayValue = [i \in 1..Len(other.arrayValue) |-> CopyFrom(other.arrayValue[i])]]
      [] other.type = "Object" ->
            [EmptyImpl EXCEPT !.type = "Object",
                !.objectValue = [k \in DOMAIN other.objectValue |-> CopyFrom(other.objectValue[k])]]
      [] OTHER -> [EmptyImpl EXCEPT !.type = other.type]

CompareJsonArraysBySize(lhs, rhs) == Len(lhs) = Len(rhs)

\* operator==
RECURSIVE Equals(_, _)
CompareJsonArrays(lhs, rhs) ==
    /\ Len(lhs) = Len(rhs)
    /\ \A i \in 1..Len(lhs) : Equals(lhs[i], rhs[i])

CompareJsonObjects(lhs, rhs) ==
    /\ DOMAIN lhs = DOMAIN rhs
    /\ \A k \in DOMAIN lhs : Equals(lhs[k], rhs[k])

Equals(a, b) ==
    IF GetType(a) # GetType(b) THEN FALSE
    ELSE CASE GetType(a) = "Boolean" -> a.booleanValue = b.booleanValue
           [] GetType(a) = "String" -> a.stringValue = b.stringValue
           [] GetType(a) = "Integer" -> a.integerValue = b.integerValue
           [] GetType(a) = "FloatingPoint" -> a.floatingPointValue = b.floatingPointValue
           [] GetType(a) = "Array" -> CompareJsonArrays(a.arrayValue, b.arrayValue)
           [] GetType(a) = "Object" -> CompareJsonObjects(a.objectValue, b.objectValue)
           [] OTHER -> TRUE

\* operator!=
NotEquals(a, b) == ~Equals(a, b)

----------------------------------------------------------------------------
(* Member functions of Value.  Each takes the Values it touches and the     *)
(* identities its guards compare (this == &other, this == &null, ...) and   *)
(* returns [self |-> *this afterwards, other |-> the argument afterwards,   *)
(* fault |-> a null impl_ was dereferenced].                                *)

\* a selector: [index] or [key]
IndexSel(i) == [byKey |-> FALSE, index |-> i, key |-> <<>>]
KeySel(k) == [byKey |-> TRUE, index |-> 0, key |-> k]

\* the reference a member function returns: *this, the sentinel, or the
\* entry of *this a selector names
ReturnsThis == [to |-> "this", sel |-> IndexSel(0)]
ReturnsNull == [to |-> "null", sel |-> IndexSel(0)]
ReturnsEntry(sel) == [to |-> "entry", sel |-> sel]

Outcome(self, other) ==
    [self |-> self, other |-> other, fault |-> FALSE, ret |-> ReturnsThis]
Faulted(self, other) ==
    [self |-> self, other |-> other, fault |-> TRUE, ret |-> ReturnsThis]
Returning(outcome, ret) == [outcome EXCEPT !.ret = ret]

\* Value(const Value& other)
CopyConstruct(other) ==
    IF HasNullImpl(other) THEN Faulted(NoImpl, other)
    ELSE Outcome(CopyFrom(other), other)

MoveConstructUnguarded(other, otherIsNull) ==
    Outcome(other, NoImpl)

\* Value(Value&& other)
MoveConstruct(other, otherIsNull) ==
    IF otherIsNull THEN Outcome(NoImpl, other)
    ELSE Outcome(other, NoImpl)

MoveAssignKeepingSource(self, other, thisIsOther, thisIsNull, otherIsNull) ==
    IF thisIsOther \/ thisIsNull \/ otherIsNull THEN Outcome(self, other)
    ELSE Outcome(other, other)

\* operator=(Value&& other)
MoveAssign(self, other, thisIsOther, thisIsNull, otherIsNull) ==
    IF thisIsOther \/ thisIsNull \/ otherIsNull THEN Outcome(self, other)
    ELSE Outcome(other, NoImpl)

CopyAssignOfTypeOnly(self, other, thisIsOther, thisIsNull) ==
    IF thisIsOther \/ thisIsNull THEN Outcome(self, other)
    ELSE IF HasNullImpl(other) THEN Faulted(EmptyImpl, other)
    ELSE Outcome(ValueOfType(other.type), other)

\* operator=(const Value& other)
CopyAssign(self, other, thisIsOther, thisIsNull) ==
    IF thisIsOther \/ thisIsNull THEN Outcome(self, other)
    ELSE IF HasNullImpl(other) THEN Faulted(EmptyImpl, other)
    ELSE Outcome(CopyFrom(other), other)

\* std::vector::insert at position min(index, size), counted from 0
\* A size_t is kept as the signed integer of the same bits: 2^64 - k is -k,
\* so that index + 1 wraps to 0 at SIZE_MAX.
SIZE_MAX == -1
\* a < b on two size_t
SizeLess(a, b) == IF (a < 0) = (b < 0) THEN a < b ELSE b < 0

InsertPositionAtFront(elements, index) == 0

\* std::min(index, size)
InsertPosition(elements, index) ==
    IF SizeLess(index, Len(elements)) THEN index ELSE Len(elements)
InsertAt(elements, index, element) ==
    LET at == InsertPosition(elements, index)
    IN  SubSeq(elements, 1, at) \o <<element>> \o SubSeq(elements, at + 1, Len(elements))

\* Insert(const Value& value, size_t index)
InsertCopy(self, val, index) ==
    IF GetType(self) # "Array" THEN Returning(Outcome(self, val), ReturnsNull)
    ELSE IF HasNullImpl(val) THEN Faulted(self, val)
    ELSE Returning(Outcome([self EXCEPT !.arrayValue = InsertAt(@, index, CopyFrom(val)),
                                        !.encoding = <<>>], val),
                   ReturnsEntry(IndexSel(InsertPosition(self.arrayValue, index))))

\* Insert(Value&& value, size_t index); with this == &value the insertion
\* moves impl_ away before impl_->encoding is cleared
InsertMove(self, val, index, thisIsValue, valueIsNull) ==
    IF GetType(self) # "Array" THEN Returning(Outcome(self, val), ReturnsNull)
    ELSE IF thisIsValue THEN Faulted(NoImpl, NoImpl)
    ELSE LET moved == MoveConstruct(val, valueIsNull)
         IN  Returning(Outcome([self EXCEPT !.arrayValue = InsertAt(@, index, moved.self),
                                            !.encoding = <<>>], moved.other),
                       ReturnsEntry(IndexSel(InsertPosition(self.arrayValue, index))))

\* Add(const Value& value); with this == &value the copy is taken of *this
\* as it was before the insertion
AddCopy(self, val) ==
    IF GetType(self) # "Array" THEN Returning(Outcome(self, val), ReturnsNull)
    ELSE InsertCopy(self, val, Len(self.arrayValue))

AddMoveWithoutSelfCheck(self, val, thisIsValue, valueIsNull) ==
    IF thisIsValue
    THEN IF GetType(self) # "Array" THEN Returning(Outcome(self, self), ReturnsNull)
         ELSE Faulted(NoImpl, NoImpl)
    ELSE IF GetType(self) # "Array" THEN Returning(Outcome(self, val), ReturnsNull)
    ELSE InsertMove(self, val, Len(self.arrayValue), FALSE, valueIsNull)

\* Add(Value&& value)
AddMove(self, val, thisIsValue, valueIsNull) ==
    IF thisIsValue
    THEN LET copied == AddCopy(self, self)
         IN  [copied EXCEPT !.other = copied.self]
    ELSE IF GetType(self) # "Array" THEN Returning(Outcome(self, val), ReturnsNull)
    ELSE InsertMove(self, val, Len(self.arrayValue), FALSE, valueIsNull)

\* Set(key, value): the entry is default-constructed when absent, then
\* copy-assigned
SetKeepingEntry(self, key, val, entryIsValue) ==
    IF GetType(self) # "Object" THEN Returning(Outcome(self, val), ReturnsNull)
    ELSE [self |-> IF key \in DOMAIN self.objectValue THEN self
                   ELSE [self EXCEPT !.objectValue = [k \in DOMAIN @ \cup {key} |->
                                         IF k = key THEN CopyFrom(val) ELSE @[k]],
                                     !.encoding = <<>>],
          other |-> val, fault |-> FALSE, ret |-> ReturnsEntry(KeySel(key))]

\* Set(const std::string& key, const Value& value)
Set(self, key, val, entryIsValue) ==
    IF GetType(self) # "Object" THEN Returning(Outcome(self, val), ReturnsNull)
    ELSE LET entry == IF key \in DOMAIN self.objectValue
                      THEN self.objectValue[key] ELSE EmptyImpl
             assigned == CopyAssign(entry, val, entryIsValue, FALSE)
             entries == [k \in DOMAIN self.objectValue \cup {key} |->
                            IF k = key THEN assigned.self ELSE self.objectValue[k]]
         IN  [self |-> [self EXCEPT !.objectValue = entries,
                                    !.encoding = IF assigned.fault THEN @ ELSE <<>>],
              other |-> val, fault |-> assigned.fault, ret |-> ReturnsEntry(KeySel(key))]

RemoveIndexOrLast(self, index) ==
    IF GetType(self) # "Array" \/ self.arrayValue = <<>> THEN self
    ELSE LET at == IF SizeLess(index, Len(self.arrayValue)) THEN index
                   ELSE Len(self.arrayValue) - 1
         IN  [self EXCEPT !.arrayValue = SubSeq(@, 1, at) \o SubSeq(@, at + 2, Len(@)),
                          !.encoding = <<>>]

\* Remove(size_t index)
RemoveIndex(self, index) ==
    IF GetType(self) # "Array" \/ ~SizeLess(index, Len(self.arrayValue)) THEN self
    ELSE [self EXCEPT !.arrayValue = SubSeq(@, 1, index) \o SubSeq(@, index + 2, Len(@)),
                      !.encoding = <<>>]

\* Remove(const std::string& key)
RemoveKey(self, key) ==
    IF GetType(self) # "Object" THEN self
    ELSE [self EXCEPT !.objectValue = [k \in DOMAIN @ \ {key} |-> @[k]],
                      !.encoding = <<>>]

\* Json::Array({...}) and Json::Object({...})
RECURSIVE ArrayFrom(_, _)
ArrayFrom(json, args) ==
    IF args = <<>> THEN json
    ELSE ArrayFrom(AddCopy(json, Head(args)).self, Tail(args))
Array(args) == ArrayFrom(ValueOfType("Array"), args)

RECURSIVE ObjectFrom(_, _)
ObjectFrom(json, args) ==
    IF args = <<>> THEN json
    ELSE ObjectFrom(Set(json, Head(args)[1], Head(args)[2], FALSE).self, Tail(args))
Object(args) == ObjectFrom(ValueOfType("Object"), args)

----------------------------------------------------------------------------
(* Non-const indexing and the places of a program's Values *)

\* The outcome of an indexer: *this afterwards, and whether a reference to
\* an entry is returned (otherwise the sentinel is); fails says what went
\* wrong instead.
Found(self) == [self |-> self, found |-> TRUE, fails |-> "no"]
NotFound(self) == [self |-> self, found |-> FALSE, fails |-> "no"]

\* Value& operator[](size_t index).  resize(index + 1) throws length_error
\* for a size no vector can have; at SIZE_MAX it is resize(0), after which
\* the element returned lies outside the emptied vector.
IndexSize(self, index) ==
    IF GetType(self) # "Array" THEN NotFound(self)
    ELSE IF SizeLess(index, Len(self.arrayValue)) THEN Found(self)
    ELSE IF index >= 0
    THEN Found([self EXCEPT !.arrayValue =
                   @ \o [i \in 1..(index + 1 - Len(@)) |-> ValueNull]])
    ELSE IF index = SIZE_MAX
    THEN [self |-> [self EXCEPT !.arrayValue = <<>>], found |-> FALSE,
          fails |-> "out of bounds"]
    ELSE [self |-> self, found |-> FALSE, fails |-> "length_error"]

\* Value& operator[](int index)
IndexInt(self, index) ==
    IF index < 0 THEN NotFound(self)
    ELSE IndexSize(self, index)

\* Value& operator[](const std::string& key)
IndexKey(self, key) ==
    IF GetType(self) # "Object" THEN NotFound(self)
    ELSE IF key \in DOMAIN self.objectValue THEN Found(self)
    ELSE Found(Set(self, key, ValueNull, FALSE).self)

\* a const char* argument: a text, or nullptr
CString(t) == [isNull |-> FALSE, text |-> t]
NullPointer == [isNull |-> TRUE, text |-> <<>>]

IndexCStringUnguarded(self, key) == IndexKey(self, key.text)

\* Value& operator[](const char* key)
IndexCString(self, key) ==
    IF key.isNull THEN NotFound(self)
    ELSE IndexKey(self, key.text)

\* const Value& operator[](size_t index) const: whether an element is
\* returned (otherwise the sentinel is)
ConstIndexSize(self, index) ==
    IF GetType(self) = "Array"
    THEN IF ~SizeLess(index, Len(self.arrayValue)) THEN FALSE ELSE TRUE
    ELSE FALSE

\* const Value& operator[](int index) const: (size_t)index keeps the bits
ConstIndexInt(self, index) == ConstIndexSize(self, index)

\* const Value& operator[](const std::string& key) const
ConstIndexKey(self, key) ==
    IF GetType(self) = "Object"
    THEN IF key \notin DOMAIN self.objectValue THEN FALSE ELSE TRUE
    ELSE FALSE

\* const Value& operator[](const char* key) const
ConstIndexCString(self, key) ==
    IF key.isNull THEN FALSE
    ELSE ConstIndexKey(self, key.text)

Lookup(self, sel) == IF sel.byKey THEN IndexKey(self, sel.key) ELSE IndexInt(self, sel.index)

Child(v, sel) == IF sel.byKey THEN v.objectValue[sel.key] ELSE v.arrayValue[sel.index + 1]
PutChild(v, sel, child) ==
    IF sel.byKey THEN [v EXCEPT !.objectValue[sel.key] = child]
    ELSE [v EXCEPT !.arrayValue[sel.index + 1] = child]

RECURSIVE Get(_, _)
Get(v, sels) == IF sels = <<>> THEN v ELSE Get(Child(v, Head(sels)), Tail(sels))

RECURSIVE Put(_, _, _)
Put(v, sels, new) ==
    IF sels = <<>> THEN new
    ELSE PutChild(v, Head(sels), Put(Child(v, Head(sels)), Tail(sels), new))

\* a place: a variable of the program and selectors into it, or the sentinel
NullLoc == [slot |-> "null", sels |-> <<>>]
\* the place of an argument that is a temporary
TemporaryLoc == [slot |-> "temporary", sels |-> <<>>]

IsPrefix(s, t) == Len(s) <= Len(t) /\ SubSeq(t, 1, Len(s)) = s
Disjoint(l1, l2) ==
    l1.slot # l2.slot \/ (~IsPrefix(l1.sels, l2.sels) /\ ~IsPrefix(l2.sels, l1.sels))

ReadAt(mem, loc) ==
    IF loc.slot = "null" THEN Get(mem.null, loc.sels)
    ELSE Get(mem.slots[loc.slot], loc.sels)
WriteAt(mem, loc, v) ==
    IF loc.slot = "null" THEN [mem EXCEPT !.null = Put(@, loc.sels, v)]
    ELSE [mem EXCEPT !.slots[loc.slot] = Put(@, loc.sels, v)]

\* e[sel], where e is the outcome of evaluating the expression to its left:
\* one lookup in the Value at e.loc, which returns a reference to the entry
\* or to the sentinel
IndexAt(e, sel) ==
    LET l == Lookup(ReadAt(e.mem, e.loc), sel)
    IN  IF l.found
        THEN [mem |-> WriteAt(e.mem, e.loc, l.self),
              loc |-> [e.loc EXCEPT !.sels = Append(@, sel)]]
        ELSE [mem |-> e.mem, loc |-> NullLoc]

\* evaluating the path expression v[sel1][sel2]... from left to right: the
\* memory afterwards and the place the returned reference names
RECURSIVE Evaluate(_, _)
Evaluate(mem, path) ==
    IF path.sels = <<>> THEN [mem |-> mem, loc |-> path]
    ELSE IndexAt(Evaluate(mem, [path EXCEPT !.sels = SubSeq(@, 1, Len(@) - 1)]),
                 path.sels[Len(path.sels)])

\* an argument: a temporary holding val, or the Value a path expression names
Temporary(v) == [literal |-> TRUE, val |-> v, path |-> NullLoc]
Named(path) == [literal |-> FALSE, val |-> EmptyImpl, path |-> path]

\* the member function a statement calls, with the identities its guards test
Call(op, self, other, thisIsOther, thisIsNull, otherIsNull) ==
    CASE op.name = "AddCopy" -> AddCopy(self, other)
      [] op.name = "AddMove" -> AddMove(self, other, thisIsOther, otherIsNull)
      [] op.name = "InsertCopy" -> InsertCopy(self, other, op.index)
      [] op.name = "InsertMove" -> InsertMove(self, other, op.index, thisIsOther, otherIsNull)
      [] op.name = "Set" -> Set(self, op.key, other, FALSE)
      [] op.name = "RemoveIndex" -> Outcome(RemoveIndex(self, op.index), other)
      [] op.name = "RemoveKey" -> Outcome(RemoveKey(self, op.key), other)
      [] op.name = "CopyAssign" -> CopyAssign(self, other, thisIsOther, thisIsNull)
      [] op.name = "MoveAssign" -> MoveAssign(self, other, thisIsOther, thisIsNull, otherIsNull)

\* Set(key, value) when value is *this (sels = <<>>) or the entry of *this
\* that sels names.  The entry of key exists before value is read, and
\* operator= gives it a fresh Impl before CopyFrom walks value: a copy of
\* *this is taken key by key, and when the walk reaches key it copies the
\* entry as far as it has been filled, the keys below key.
SetAliased(self, key, sels) ==
    IF GetType(self) # "Object"
    THEN Returning(Outcome(self, Get(self, sels)), ReturnsNull)
    ELSE IF sels # <<>>
    THEN Set(self, key, Get(self, sels), sels = <<KeySel(key)>>)
    ELSE LET keys == DOMAIN self.objectValue \cup {key}
             below == {j \in keys : KeyLess(j, key)}
             filled == [ValueOfType("Object") EXCEPT
                           !.objectValue = [j \in below |-> CopyFrom(self.objectValue[j])]]
             entry == [ValueOfType("Object") EXCEPT
                          !.objectValue = [j \in keys |->
                              IF j = key THEN filled ELSE CopyFrom(self.objectValue[j])]]
             after == [self EXCEPT !.objectValue = [j \in keys |->
                                      IF j = key THEN entry ELSE self.objectValue[j]],
                                   !.encoding = <<>>]
         IN  Returning(Outcome(after, after), ReturnsEntry(KeySel(key)))

Op(name) == [name |-> name, index |-> 0, key |-> <<>>]

----------------------------------------------------------------------------
(* The scanner and the decoder *)

\* FindFirstNotOf(codePoints, WHITESPACE_CHARACTERS, forwardDirection), 0-based
RECURSIVE CountLeading(_, _, _)
CountLeading(codePoints, forwardDirection, offset) ==
    IF offset < Len(codePoints)
       /\ (IF forwardDirection THEN codePoints[offset + 1]
           ELSE codePoints[Len(codePoints) - offset]) \in WHITESPACE_CHARACTERS
    THEN CountLeading(codePoints, forwardDirection, offset + 1)
    ELSE offset

FindFirstNotOf(codePoints, forwardDirection) ==
    LET offset == CountLeading(codePoints, forwardDirection, 0)
    IN  IF offset < Len(codePoints)
        THEN (IF forwardDirection THEN offset ELSE Len(codePoints) - offset - 1)
        ELSE offset

\* The for loop of ParseValue from 1-based position i: returns the position
\* of the last code point pushed to encodedValueCodePoints and the stack of
\* expected delimiters left (top of the stack first).
RECURSIVE ParseValueScan(_, _, _, _, _)
ParseValueScan(codePoints, i, expectedDelimiters, insideString, delimiter) ==
    IF i > Len(codePoints) THEN [last |-> i - 1, expectedDelimiters |-> expectedDelimiters]
    ELSE LET cp == codePoints[i] IN
         IF expectedDelimiters # <<>> /\ cp = Head(expectedDelimiters)
         THEN ParseValueScan(codePoints, i + 1, Tail(expectedDelimiters), FALSE, delimiter)
         ELSE IF insideString
         THEN ParseValueScan(codePoints, i + 1, expectedDelimiters, insideString, delimiter)
         ELSE IF cp = QUOTE
         THEN ParseValueScan(codePoints, i + 1, <<QUOTE>> \o expectedDelimiters, TRUE, delimiter)
         ELSE IF cp = LBRACKET
         THEN ParseValueScan(codePoints, i + 1, <<RBRACKET>> \o expectedDelimiters, FALSE, delimiter)
         ELSE IF cp = LBRACE
         THEN ParseValueScan(codePoints, i + 1, <<RBRACE>> \o expectedDelimiters, FALSE, delimiter)
         ELSE IF cp = delimiter /\ expectedDelimiters = <<>>
         THEN [last |-> i, expectedDelimiters |-> expectedDelimiters]
         ELSE ParseValueScan(codePoints, i + 1, expectedDelimiters, FALSE, delimiter)

ParseValueKeepingDelimiter(codePoints, offset, delimiter) ==
    IF offset >= Len(codePoints) THEN [encoded |-> <<>>, offset |-> offset]
    ELSE LET scan == ParseValueScan(codePoints, offset + 1, <<>>, FALSE, delimiter)
             taken == SubSeq(codePoints, offset + 1, scan.last)
         IN  IF scan.expectedDelimiters = <<>>
             THEN [encoded |-> taken, offset |-> offset + Len(taken)]
             ELSE [encoded |-> <<>>, offset |-> offset]

\* ParseValue(codePoints, offset, delimiter) with a 0-based offset:
\* [encoded |-> the member's text ({} is <<>>), offset |-> the offset afterwards]
ParseValue(codePoints, offset, delimiter) ==
    IF offset >= Len(codePoints) THEN [encoded |-> <<>>, offset |-> offset]
    ELSE LET scan == ParseValueScan(codePoints, offset + 1, <<>>, FALSE, delimiter)
             taken == SubSeq(codePoints, offset + 1, scan.last)
         IN  IF scan.expectedDelimiters = <<>>
             THEN [encoded |-> IF taken[Len(taken)] = delimiter
                               THEN SubSeq(taken, 1, Len(taken) - 1) ELSE taken,
                   offset |-> offset + Len(taken)]
             ELSE [encoded |-> <<>>, offset |-> offset]

LiteralNull == <<110, 117, 108, 108>>
LiteralTrue == <<116, 114, 117, 101>>
LiteralFalse == <<102, 97, 108, 115, 101>>
FloatMarkers == {PLUS, DOT, LOWER_E, UPPER_E}      \* find_first_of("+.eE")

\* the trimmed text FromEncoding works on
Trimmed(encodingBeforeTrim) ==
    LET first == FindFirstNotOf(encodingBeforeTrim, TRUE)
        lastNonWs == FindFirstNotOf(encodingBeforeTrim, FALSE)
    IN  IF first = Len(encodingBeforeTrim) THEN <<>>
        ELSE SubSeq(encodingBeforeTrim, first + 1, lastNonWs + 1)

\* FromEncoding builds a vector from (begin + 1, begin + size - 1) when the
\* text starts and ends with a quote; for the one-character text that range
\* is reversed and the call does not return a Value.
FromEncodingFaults(encodingBeforeTrim) == Trimmed(encodingBeforeTrim) = <<QUOTE>>

RECURSIVE FromEncoding(_, _)
RECURSIVE ParseAsArrayFrom(_, _, _, _)
RECURSIVE ParseAsObjectFrom(_, _, _, _)

\* the while loop of ParseAsArray: [ok, members]; the members are the Values
\* emplaced in newArrayValue
ParseAsArrayFrom(codePoints, offset, newArrayValue, castOk) ==
    IF offset >= Len(codePoints) THEN [ok |-> TRUE, members |-> newArrayValue]
    ELSE LET member == ParseValue(codePoints, offset, COMMA) IN
         IF member.encoded = <<>> THEN [ok |-> FALSE, members |-> <<>>]
         ELSE ParseAsArrayFrom(codePoints, member.offset,
                               Append(newArrayValue, FromEncoding(member.encoded, castOk)),
                               castOk)

\* ParseAsArray on json: arrayValue is a copy of newArrayValue
ParseAsArray(json, codePoints, castOk) ==
    LET parsed == ParseAsArrayFrom(codePoints, 0, <<>>, castOk)
    IN  IF ~parsed.ok THEN json
        ELSE [json EXCEPT !.type = "Array",
                          !.arrayValue = [i \in 1..Len(parsed.members) |->
                                             CopyFrom(parsed.members[i])]]

\* the while loop of ParseAsObject: [ok, members]
ParseAsObjectFrom(codePoints, offset, newObjectValue, castOk) ==
    IF offset >= Len(codePoints) THEN [ok |-> TRUE, members |-> newObjectValue]
    ELSE LET encodedKey == ParseValue(codePoints, offset, COLON) IN
         IF encodedKey.encoded = <<>> THEN [ok |-> FALSE, members |-> <<>>]
         ELSE LET key == FromEncoding(encodedKey.encoded, castOk) IN
              IF GetType(key) # "String" THEN [ok |-> FALSE, members |-> <<>>]
              ELSE LET encodedValue == ParseValue(codePoints, encodedKey.offset, COMMA) IN
                   IF encodedValue.encoded = <<>> THEN [ok |-> FALSE, members |-> <<>>]
                   ELSE ParseAsObjectFrom(codePoints, encodedValue.offset,
                            [k \in (DOMAIN newObjectValue) \cup {key.stringValue} |->
                                IF k = key.stringValue
                                THEN FromEncoding(encodedValue.encoded, castOk)
                                ELSE newObjectValue[k]],
                            castOk)

ParseAsObject(json, codePoints, castOk) ==
    LET parsed == ParseAsObjectFrom(codePoints, 0, <<>>, castOk)
    IN  IF ~parsed.ok THEN json
        ELSE [json EXCEPT !.type = "Object",
                          !.objectValue = [k \in DOMAIN parsed.members |->
                                              CopyFrom(parsed.members[k])]]

\* Value::FromEncoding; castOk as in DecodeAsFloatingPoint
FromEncoding(encodingBeforeTrim, castOk) ==
    LET encoding == Trimmed(encodingBeforeTrim)
        n == Len(encoding)
        json == [EmptyImpl EXCEPT !.encoding = [i \in 1..n |-> Utf8RoundTrip(encoding[i])]]
        inner == SubSeq(encoding, 2, n - 1)
    IN  IF n = 0 THEN EmptyImpl
        ELSE IF encoding[1] = LBRACE /\ encoding[n] = RBRACE
        THEN ParseAsObject(json, inner, castOk)
        ELSE IF encoding[1] = LBRACKET /\ encoding[n] = RBRACKET
        THEN ParseAsArray(json, inner, castOk)
        ELSE IF encoding[1] = QUOTE /\ encoding[n] = QUOTE
        THEN LET decoded == DecodeString([i \in 1..Len(inner) |-> Utf8RoundTrip(inner[i])])
             IN  IF decoded.ok
                 THEN [json EXCEPT !.type = "String", !.stringValue = decoded.output]
                 ELSE json
        ELSE IF json.encoding = LiteralNull THEN [json EXCEPT !.type = "Null"]
        ELSE IF json.encoding = LiteralTrue
        THEN [json EXCEPT !.type = "Boolean", !.booleanValue = TRUE]
        ELSE IF json.encoding = LiteralFalse
        THEN [json EXCEPT !.type = "Boolean", !.booleanValue = FALSE]
        ELSE IF \E i \in 1..n : json.encoding[i] \in FloatMarkers
        THEN LET r == DecodeAsFloatingPoint(encoding, castOk)
             IN  IF r.ok THEN [json EXCEPT !.type = "FloatingPoint",
                                           !.floatingPointValue = r.floatingPointValue]
                 ELSE json
        ELSE LET r == DecodeAsInteger(encoding)
             IN  IF r.ok THEN [json EXCEPT !.type = "Integer", !.integerValue = r.integerValue]
                 ELSE json

----------------------------------------------------------------------------
(* The encoder *)

\* EncodingOptions with its default member initialisers
DefaultOptions ==
    [escapeNonAscii |-> FALSE, reencode |-> FALSE, pretty |-> FALSE,
     spacesPerIndentationLevel |-> 4, wrapThreshold |-> 60, numIndentationLevels |-> 0]

InvalidPrefix == <<40, 73, 110, 118, 97, 108, 105, 100, 32, 74, 83, 79, 78, 58, 32>>  \* "(Invalid JSON: "
InvalidSuffix == <<41>>                                                               \* ")"
CRLF == <<CR, LF>>

\* std::string::c_str() read by sprintf("%s"): the characters before the
\* first NUL
RECURSIVE c_str(_)
c_str(encoding) ==
    IF encoding = <<>> \/ Head(encoding) = 0 THEN <<>>
    ELSE <<Head(encoding)>> \o c_str(Tail(encoding))

Spaces(n) == [i \in 1..n |-> SPACE]

RECURSIVE Join(_, _)
Join(texts, separator) ==
    IF Len(texts) = 0 THEN <<>>
    ELSE IF Len(texts) = 1 THEN texts[1]
    ELSE texts[1] \o separator \o Join(Tail(texts), separator)

DigitsText(digits) == [i \in 1..Len(digits) |-> DIGIT0 + digits[i]]

RECURSIVE StripTrailingZeros(_)
StripTrailingZeros(d) ==
    IF Len(d) > 0 /\ d[Len(d)] = 0 THEN StripTrailingZeros(SubSeq(d, 1, Len(d) - 1)) ELSE d

\* sprintf("%.15lg", x) followed by the ".0" suffix for a rendering made of
\* digits and '-' only.  The double is the decimal it was read from; the
\* rendering is exact for decimals without exponent and of at most 15
\* digits and an approximation of printf otherwise.
FormatFloatingPoint(fp) ==
    LET fraction == StripTrailingZeros(fp.fraction)
        exponent == StripLeadingZeros(fp.exponent)
        mantissa == (IF fp.negativeMagnitude THEN <<MINUS>> ELSE <<>>)
                    \o DigitsText(fp.magnitude)
                    \o (IF fraction = <<>> THEN <<>> ELSE <<DOT>> \o DigitsText(fraction))
    IN  IF exponent = <<>> \/ exponent = <<0>>
        THEN (IF fraction = <<>> THEN mantissa \o <<DOT, DIGIT0>> ELSE mantissa)
        ELSE mantissa \o <<LOWER_E>>
             \o (IF fp.negativeExponent THEN <<MINUS>> ELSE <<PLUS>>)
             \o (IF Len(exponent) < 2 THEN <<DIGIT0>> ELSE <<>>) \o DigitsText(exponent)

\* the choice between the single-line and the wrapped rendering
ChooseRenderingFromThreshold(single, wrapped, indentation, options) ==
    IF options.pretty /\ Len(indentation) + Len(single) >= options.wrapThreshold
    THEN wrapped ELSE single

ChooseRenderingBelowTopLevel(single, wrapped, indentation, options) ==
    IF options.pretty /\ indentation # <<>>
       /\ Len(indentation) + Len(single) > options.wrapThreshold
    THEN wrapped ELSE single

ChooseRendering(single, wrapped, indentation, options) ==
    IF options.pretty /\ Len(indentation) + Len(single) > options.wrapThreshold
    THEN wrapped ELSE single

\* Value::ToEncoding(options): [text |-> the string returned, value |-> the
\* Value afterwards (its cache and the caches of its object members are
\* mutable through the const method)].  Defined when ToEncodingFaults is
\* false.
RECURSIVE ToEncoding(_, _)
ToEncoding(v, options) ==
    IF GetType(v) = "Invalid"
    THEN [text |-> InvalidPrefix \o c_str(v.encoding) \o InvalidSuffix, value |-> v]
    ELSE IF ~options.reencode /\ v.encoding # <<>>
    THEN [text |-> v.encoding, value |-> v]
    ELSE LET nestedOptions == [options EXCEPT !.numIndentationLevels = @ + 1]
             nestedIndentation == Spaces(nestedOptions.numIndentationLevels
                                         * nestedOptions.spacesPerIndentationLevel)
             indentation == Spaces(options.numIndentationLevels
                                   * options.spacesPerIndentationLevel)
             separator == IF nestedOptions.pretty THEN <<COMMA, SPACE>> ELSE <<COMMA>>
         IN
         CASE v.type = "Null" -> [text |-> LiteralNull, value |-> [v EXCEPT !.encoding = LiteralNull]]
           [] v.type = "Boolean" ->
                LET e == IF v.booleanValue THEN LiteralTrue ELSE LiteralFalse
                IN  [text |-> e, value |-> [v EXCEPT !.encoding = e]]
           [] v.type = "String" ->
                LET e == <<QUOTE>> \o EncodeString(v.stringValue, options) \o <<QUOTE>>
                IN  [text |-> e, value |-> [v EXCEPT !.encoding = e]]
           [] v.type = "Integer" ->
                LET e == IntToText(v.integerValue)
                IN  [text |-> e, value |-> [v EXCEPT !.encoding = e]]
           [] v.type = "FloatingPoint" ->
                LET e == FormatFloatingPoint(v.floatingPointValue)
                IN  [text |-> e, value |-> [v EXCEPT !.encoding = e]]
           [] v.type = "Array" ->
                \* the loop variable is a copy of each element
                LET members == [i \in 1..Len(v.arrayValue) |->
                                   ToEncoding(CopyFrom(v.arrayValue[i]), nestedOptions).text]
                    single == <<LBRACKET>> \o Join(members, separator) \o <<RBRACKET>>
                    wrapped == <<LBRACKET>> \o CRLF
                               \o Join([i \in 1..Len(members) |-> nestedIndentation \o members[i]],
                                       <<COMMA>> \o CRLF)
                               \o CRLF \o indentation \o <<RBRACKET>>
                    e == ChooseRendering(single, wrapped, indentation, options)
                IN  [text |-> e, value |-> [v EXCEPT !.encoding = e]]
           [] v.type = "Object" ->
                \* the loop variable is a reference to each entry
                LET keys == SortedKeys(DOMAIN v.objectValue)
                    done == [k \in DOMAIN v.objectValue |->
                                ToEncoding(v.objectValue[k], nestedOptions)]
                    members == [i \in 1..Len(keys) |->
                                   <<QUOTE>> \o EncodeString(keys[i], nestedOptions) \o <<QUOTE>>
                                   \o (IF nestedOptions.pretty THEN <<COLON, SPACE>> ELSE <<COLON>>)
                                   \o done[keys[i]].text]
                    single == <<LBRACE>> \o Join(members, separator) \o <<RBRACE>>
                    wrapped == <<LBRACE>> \o CRLF
                               \o Join([i \in 1..Len(members) |-> nestedIndentation \o members[i]],
                                       <<COMMA>> \o CRLF)
                               \o CRLF \o indentation \o <<RBRACE>>
                    e == ChooseRendering(single, wrapped, indentation, options)
                IN  [text |-> e,
                     value |-> [v EXCEPT !.encoding = e,
                                         !.objectValue = [k \in DOMAIN v.objectValue |-> done[k].value]]]
           [] OTHER -> [text |-> <<63, 63, 63>>, value |-> [v EXCEPT !.encoding = <<63, 63, 63>>]]

\* ToEncoding(options) on v reads through a null impl_
RECURSIVE ToEncodingFaults(_, _)
ToEncodingFaults(v, options) ==
    \/ ~v.impl
    \/ /\ v.type \in {"Array", "Object"}
       /\ options.reencode \/ v.encoding = <<>>
       /\ \/ /\ v.type = "Array"
             /\ \E i \in 1..Len(v.arrayValue) : HasNullImpl(v.arrayValue[i])
          \/ /\ v.type = "Object"
             /\ \E k \in DOMAIN v.objectValue :
                    ToEncodingFaults(v.objectValue[k],
                                     [options EXCEPT !.numIndentationLevels = @ + 1])

----------------------------------------------------------------------------
(* Inputs of the codec runs *)

MaxNumberLen == 4     \* longest text drawn over NumberAlphabet
MaxChunks == 3        \* most chunks in a quoted string
MaxMembers == 2       \* most members in a container text

\* all concatenations of at most n pieces
RECURSIVE Concatenations(_, _)
Concatenations(pieces, n) ==
    IF n = 0 THEN {<<>>}
    ELSE LET shorter == Concatenations(pieces, n - 1)
         IN  shorter \cup {t \o piece : t \in shorter, piece \in pieces}

\* '-', '+', '.', 'e', 'E', '0', '1', '9'
NumberAlphabet == {<<MINUS>>, <<PLUS>>, <<DOT>>, <<LOWER_E>>, <<UPPER_E>>, <<DIGIT0>>, <<DIGIT1>>, <<DIGIT9>>}

\* the literals of the tests and the limits of int and intmax_t
BoundaryTexts == {
    <<50, 49, 52, 55, 52, 56, 51, 54, 52, 55>>,   \* 2147483647
    <<50, 49, 52, 55, 52, 56, 51, 54, 52, 56>>,   \* 2147483648
    <<45, 50, 49, 52, 55, 52, 56, 51, 54, 52, 56>>,   \* -2147483648
    <<45, 50, 49, 52, 55, 52, 56, 51, 54, 52, 57>>,   \* -2147483649
    <<48, 48, 50, 53>>,   \* 0025
    <<45, 48, 48, 50, 53>>,   \* -0025
    <<57, 57, 57, 57, 57, 57, 57, 57, 57, 57, 57, 57, 57, 57, 57, 57, 57, 57, 57, 57, 57, 57, 57, 57, 57, 57, 57, 57, 57, 57, 57, 57, 57, 57, 57, 57, 57, 57, 57, 57, 57, 57, 57, 57, 57, 57, 57, 57, 57, 57, 57, 57, 57, 57, 57, 57>>,   \* 999999... (56 characters)
    <<57, 57, 57, 57, 57, 57, 57, 57, 57, 57, 57, 57, 57, 57, 57, 57, 57, 57, 57, 57, 57, 57, 57, 57, 57, 57, 57, 57, 57, 57, 57, 57, 57, 57, 57, 57, 57, 57, 57, 57, 57, 57, 57, 57, 57, 57, 57, 57, 57, 57, 57, 57, 57, 57, 57, 57, 57, 57, 57, 46, 48>>,   \* 999999... (61 characters)
    <<49, 101, 57, 57, 57, 57, 57, 57, 57, 57, 57, 57, 57, 57, 57, 57, 57, 57, 57, 57, 57, 57, 57, 57, 57, 57, 57, 57, 57, 57, 57, 57, 57, 57, 57, 57, 57, 57, 57, 57, 57, 57, 57, 57, 57, 57, 57, 57, 57, 57, 57, 57, 57, 57, 57, 57, 57, 57, 57, 57, 57>>,   \* 1e9999... (61 characters)
    <<57, 50, 50, 51, 51, 55, 50, 48, 51, 54, 56, 53, 52, 55, 55, 53, 56, 48, 55>>,   \* 9223372036854775807
    <<57, 50, 50, 51, 51, 55, 50, 48, 51, 54, 56, 53, 52, 55, 55, 53, 56, 48, 56>>,   \* 9223372036854775808
    <<49, 50, 51, 52, 53, 54, 55, 56, 57, 48, 49, 50, 51, 52, 53, 46, 53>>,   \* 123456789012345.5
    <<49, 50, 51, 52, 53, 54, 55, 56, 57, 48, 49, 50, 51, 52, 53, 54, 46, 53>>,   \* 1234567890123456.5
    <<52, 50>>,   \* 42
    <<116, 114, 117, 101>>,   \* true
    <<102, 97, 108, 115, 101>>,   \* false
    <<110, 117, 108, 108>>,   \* null
    <<110, 117, 108>>,   \* nul
    <<97, 98, 99>>   \* abc
}

NumberTexts == (Concatenations(NumberAlphabet, MaxNumberLen) \ {<<>>}) \cup BoundaryTexts

\* pieces of the inside of a quoted string
StringChunks == {
    <<97>>,   \* a
    <<32>>,   \*  
    <<92, 110>>,   \* \n
    <<92, 34>>,   \* \"
    <<92, 92>>,   \* \\
    <<92, 120>>,   \* \x
    <<92>>,   \* \
    <<92, 117, 48, 48, 101, 57>>,   \* \u00e9
    <<92, 117, 49, 50>>,   \* \u12
    <<92, 117, 49, 50, 71, 52>>,   \* \u12G4
    <<92, 117, 68, 56, 51, 52>>,   \* \uD834
    <<92, 117, 68, 68, 49, 69>>,   \* \uDD1E
    <<92, 117, 100, 56, 51, 52>>,   \* \ud834
    <<92, 117, 68, 56, 48, 48>>,   \* \uD800
    <<92, 117, 68, 67, 48, 48>>   \* \uDC00
}

StringTexts == {<<QUOTE>> \o t \o <<QUOTE>> : t \in Concatenations(StringChunks, MaxChunks)}

\* member texts of arrays and objects
MemberTexts == {
    <<49>>,   \* 1
    <<48, 48, 50, 53>>,   \* 0025
    <<32>>,   \*  
    <<43>>,   \* +
    <<34, 97, 34>>,   \* "a"
    <<91, 93>>,   \* []
    <<91, 32, 93>>,   \* [ ]
    <<116, 114, 117, 101>>,   \* true
    <<110, 117, 108>>,   \* nul
    <<49, 101, 43>>,   \* 1e+
    <<123, 125>>,   \* {}
    <<91, 49, 44, 45, 93>>   \* [1,-]
}

MemberLists == {l \in UNION {[1..n -> MemberTexts] : n \in 0..MaxMembers} : TRUE}

KeyTexts == <<<<QUOTE, 97, QUOTE>>, <<QUOTE, 98, QUOTE>>, <<QUOTE, 97, QUOTE>>, <<QUOTE, 99, QUOTE>>>>  \* "a" "b" "a" "c"

ArrayText(members) == <<LBRACKET>> \o Join(members, <<COMMA>>) \o <<RBRACKET>>
ObjectText(members) ==
    <<LBRACE>> \o Join([i \in 1..Len(members) |-> KeyTexts[i] \o <<COLON>> \o members[i]], <<COMMA>>)
    \o <<RBRACE>>

ContainerTexts ==
    {ArrayText(l) : l \in MemberLists}
    \cup {ObjectText(l) : l \in MemberLists}
    \cup {ArrayText(<<ArrayText(l)>>) : l \in MemberLists}
    \cup {ObjectText(<<ArrayText(l)>>) : l \in MemberLists}
    \cup {ArrayText(<<ObjectText(l)>>) : l \in MemberLists}

\* a lone quote, blank texts, an array with a space after the comma
OddTexts == {<<QUOTE>>, <<>>, <<SPACE>>, <<SPACE, QUOTE, SPACE>>, <<LBRACKET, 49, COMMA, SPACE, 50, RBRACKET>>}

\* texts that are not JSON, with white space, control characters and NUL:
\* tab CR LF, " \ta b\r\n", VT a FF, a NUL b, "{ 1"
UnparsableTexts == {
    <<9, 13, 10>>,
    <<32, 9, 97, 32, 98, 13, 10>>,
    <<11, 97, 12>>,
    <<97, 0, 98>>,
    <<10, 123, 32, 49, 9>>
}

\* string literals with escaped quotes and backslashes:
\* "a\",b"  "a\":b"  "\""  "a\\"  "a,b"
EscapedQuoteLiterals == {
    <<34, 97, 92, 34, 44, 98, 34>>,
    <<34, 97, 92, 34, 58, 98, 34>>,
    <<34, 92, 34, 34>>,
    <<34, 97, 92, 92, 34>>,
    <<34, 97, 44, 98, 34>>
}

\* [literal], [literal,1] and {"a":literal}
EscapedQuoteTexts ==
    {ArrayText(<<l>>) : l \in EscapedQuoteLiterals}
    \cup {ArrayText(<<l, <<49>>>>) : l \in EscapedQuoteLiterals}
    \cup {ObjectText(<<l>>) : l \in EscapedQuoteLiterals}

\* arrays and objects with a trailing, a doubled or a leading comma:
\* [1,]  [1,2,]  {"a":1,}  [1,,2]  [,1]  {"a":1,,"b":2}  {,"a":1}
StrayCommaTexts == {
    <<91, 49, 44, 93>>,
    <<91, 49, 44, 50, 44, 93>>,
    <<123, 34, 97, 34, 58, 49, 44, 125>>,
    <<91, 49, 44, 44, 50, 93>>,
    <<91, 44, 49, 93>>,
    <<123, 34, 97, 34, 58, 49, 44, 44, 34, 98, 34, 58, 50, 125>>,
    <<123, 44, 34, 97, 34, 58, 49, 125>>
}

DecodeCorpus ==
    NumberTexts \cup StringTexts \cup ContainerTexts \cup OddTexts \cup UnparsableTexts
    \cup EscapedQuoteTexts \cup StrayCommaTexts

\* options tried on the result of a decode
DecodeOptions ==
    {DefaultOptions, [DefaultOptions EXCEPT !.reencode = TRUE],
     [DefaultOptions EXCEPT !.escapeNonAscii = TRUE],
     [DefaultOptions EXCEPT !.pretty = TRUE, !.reencode = TRUE]}

----------------------------------------------------------------------------
(* Codec runs: one text is decoded, then the result is encoded. *)

MachineIdle ==
    /\ slots = <<>>
    /\ null = ValueNull
    /\ fault = "none"
    /\ last = [op |-> "none"]
    /\ steps = 0

InitDecode ==
    /\ text \in DecodeCorpus
    /\ original = EmptyImpl
    /\ value = EmptyImpl
    /\ encoded = <<>>
    /\ pc = "start"
    /\ MachineIdle

\* value = Json::Value::FromEncoding(text)
DecodeText ==
    /\ pc = "start"
    /\ ~FromEncodingFaults(text)
    /\ \E castOk \in BOOLEAN : value' = FromEncoding(text, castOk)
    /\ pc' = "decoded"
    /\ UNCHANGED <<text, original, encoded, machineVars>>

\* FromEncoding(text) does not return
DecodeThrows ==
    /\ pc = "start"
    /\ FromEncodingFaults(text)
    /\ pc' = "threw"
    /\ UNCHANGED <<text, original, value, encoded, machineVars>>

\* encoded = value.ToEncoding(options)
EncodeDecoded ==
    /\ pc = "decoded"
    /\ \E options \in DecodeOptions :
          /\ ~ToEncodingFaults(value, options)
          /\ encoded' = ToEncoding(value, options).text
          /\ value' = ToEncoding(value, options).value
          /\ last' = [op |-> "ToEncoding", options |-> options]
    /\ pc' = "encoded"
    /\ UNCHANGED <<text, original, slots, null, fault, steps>>

NextDecode == DecodeText \/ DecodeThrows \/ EncodeDecoded

SpecDecode == InitDecode /\ [][NextDecode]_vars

----------------------------------------------------------------------------
(* Round trips: a Value is built, encoded, and the text is decoded. *)

MaxStringLen == 2     \* longest string of a built Value

\* 'a', '"', '\', line feed, U+00E9, U+1D11E
StringPieces == {<<LOWER_A>>, <<QUOTE>>, <<BACKSLASH>>, <<LF>>, <<233>>, <<119070>>}
BuiltStrings == Concatenations(StringPieces, MaxStringLen)

BuiltScalars ==
    {ValueNull, ValueBoolean(TRUE), ValueBoolean(FALSE)}
    \cup {ValueInteger(n) : n \in {0, -1, 42, 2147483647, -2147483647 - 1}}
    \cup {ValueString(t) : t \in BuiltStrings}

BuiltMembers ==
    {ValueNull, ValueInteger(42), ValueOfType("Array"), ValueOfType("Object")}
    \cup {ValueString(t) : t \in StringPieces}

BuiltValues ==
    BuiltScalars
    \cup {Array(<<x>>) : x \in BuiltScalars}
    \cup {Array(<<x, y>>) : x, y \in BuiltMembers}
    \cup {Object(<<<<k, x>>>>) : k \in StringPieces, x \in BuiltMembers}
    \cup {Object(<<<<<<LOWER_A>>, x>>, <<<<98>>, y>>>>) : x, y \in BuiltMembers}
    \cup {Array(<<Array(<<x>>)>>) : x \in BuiltMembers}
    \cup {Object(<<<<<<LOWER_A>>, Array(<<x>>)>>>>) : x \in BuiltMembers}
    \cup {Array(<<Object(<<<<<<LOWER_A>>, x>>>>)>>) : x \in BuiltMembers}

RoundTripOptions == {DefaultOptions, [DefaultOptions EXCEPT !.escapeNonAscii = TRUE]}

InitRoundTrip ==
    /\ original \in BuiltValues
    /\ text = <<>>
    /\ value = EmptyImpl
    /\ encoded = <<>>
    /\ pc = "built"
    /\ MachineIdle

\* text = original.ToEncoding(options)
EncodeOriginal ==
    /\ pc = "built"
    /\ \E options \in RoundTripOptions :
       \E done \in {ToEncoding(original, options)} :
          /\ text' = done.text
          /\ original' = done.value
          /\ last' = [op |-> "ToEncoding", options |-> options]
    /\ pc' = "rendered"
    /\ UNCHANGED <<value, encoded, slots, null, fault, steps>>

\* value = Json::Value::FromEncoding(text)
DecodeRendered ==
    /\ pc = "rendered"
    /\ IF FromEncodingFaults(text)
       THEN pc' = "threw" /\ UNCHANGED value
       ELSE /\ \E castOk \in BOOLEAN : value' = FromEncoding(text, castOk)
            /\ pc' = "reparsed"
    /\ UNCHANGED <<text, original, encoded, machineVars>>

NextRoundTrip == EncodeOriginal \/ DecodeRendered

SpecRoundTrip == InitRoundTrip /\ [][NextRoundTrip]_vars

----------------------------------------------------------------------------
(* Scanner runs: the inner text of an array or object is decoded, and split *)
(* into members by successive calls of ParseValue as ParseAsArray and       *)
(* ParseAsObject make them.                                                 *)

MaxScanPieces == 3      \* most pieces of an inner text

\* 1  ,  :  "a,b"  "a  [1,2]  [1  {"a":1}  {  ]  "]"  and a space
ScanPieces == {
    <<49>>, <<44>>, <<58>>, <<34, 97, 44, 98, 34>>, <<34, 97>>, <<91, 49, 44, 50, 93>>,
    <<91, 49>>, <<123, 34, 97, 34, 58, 49, 125>>, <<123>>, <<93>>, <<34, 93, 34>>, <<32>>
}

ScanTexts == Concatenations(ScanPieces, MaxScanPieces)

\* the delimiter of the next call: ',' in an array, ':' then ',' in an object
NextDelimiter(container, delimiter) ==
    IF container = "Array" THEN COMMA
    ELSE IF delimiter = COLON THEN COMMA ELSE COLON

InitScan ==
    /\ text \in ScanTexts
    /\ original = EmptyImpl /\ value = EmptyImpl /\ encoded = <<>>
    /\ pc = "start"
    /\ slots = <<>> /\ null = ValueNull /\ fault = "none" /\ steps = 0
    /\ \E container \in {"Array", "Object"} :
          last = [op |-> "none", container |-> container, delimiter |-> COMMA,
                  from |-> 0, encoded |-> <<>>, offset |-> 0]

\* value = FromEncoding("[" + text + "]") or FromEncoding("{" + text + "}")
DecodeEnclosing ==
    /\ pc = "start"
    /\ \E castOk \in BOOLEAN :
          value' = FromEncoding(IF last.container = "Array"
                                THEN <<LBRACKET>> \o text \o <<RBRACKET>>
                                ELSE <<LBRACE>> \o text \o <<RBRACE>>, castOk)
    /\ pc' = "scanning"
    /\ UNCHANGED <<text, original, encoded, machineVars>>

\* the next ParseValue(codePoints, offset, delimiter) of the while loop
ScanMember ==
    /\ pc = "scanning"
    /\ last.offset < Len(text)
    /\ last.op = "none" \/ last.encoded # <<>>
    /\ \E delimiter \in {NextDelimiter(last.container, last.delimiter)} :
       \E member \in {ParseValue(text, last.offset, delimiter)} :
          last' = [last EXCEPT !.op = "ParseValue", !.delimiter = delimiter,
                               !.from = last.offset, !.encoded = member.encoded,
                               !.offset = member.offset]
    /\ steps' = steps + 1
    /\ UNCHANGED <<codecVars, slots, null, fault>>

NextScan == DecodeEnclosing \/ ScanMember

SpecScan == InitScan /\ [][NextScan]_vars

----------------------------------------------------------------------------
(* Size runs: a Value is built from a size_t, converted back and encoded. *)

MaxOffset == 3      \* distance from a boundary of the sizes and code points tried

\* the two low words and the two high words of the sizes tried
LowWordsTried ==
    {<<0, 42>>}
    \cup UNION {{<<0, k>>, <<32767, 65535 - k>>, <<32768, k>>, <<65535, 65535 - k>>} :
                   k \in 0..MaxOffset}
HighWordsTried == {<<0, 0>>, <<0, 1>>, <<32768, 0>>, <<65535, 65535>>}
SizesBuilt == {high \o low : high \in HighWordsTried, low \in LowWordsTried}

InitSizes ==
    /\ text = <<>> /\ original = EmptyImpl /\ value = EmptyImpl /\ encoded = <<>>
    /\ pc = "start"
    /\ MachineIdle

\* Json::Value a(n);
BuildFromSize ==
    /\ pc = "start"
    /\ \E n \in SizesBuilt :
          /\ slots' = [a |-> ValueSize(n)]
          /\ last' = [op |-> "Value", n |-> n, asInt |-> 0, asSize |-> SizeOfInt(0)]
    /\ pc' = "built"
    /\ UNCHANGED <<text, original, value, encoded, null, fault, steps>>

\* (int)a, (size_t)a and a.ToEncoding()
ConvertBuilt ==
    /\ pc = "built"
    /\ \E done \in {ToEncoding(slots["a"], DefaultOptions)} :
          /\ encoded' = done.text
          /\ slots' = [slots EXCEPT !["a"] = done.value]
    /\ last' = [last EXCEPT !.op = "converted", !.asInt = OperatorInt(slots["a"]),
                            !.asSize = OperatorSize(slots["a"])]
    /\ pc' = "converted"
    /\ UNCHANGED <<text, original, value, null, fault, steps>>

NextSizes == BuildFromSize \/ ConvertBuilt

SpecSizes == InitSizes /\ [][NextSizes]_vars

----------------------------------------------------------------------------
(* Escape runs: round trips of strings holding one code point above 0x7F. *)


\* 0x80, 0x800, 0xD7FF, 0xE000, 0xFFFF, 0x10000, 0x10400, 0x1D11E, 0x233B4,
\* 0x23AB4, 0xFFFFF, 0x100000, 0x10FFFF
CodePointBoundaries ==
    {128, 2048, 55295, 57344, 65535, 65536, 66560, 119070, 144308, 146100, 1048575, 1048576,
     1114111}

\* the code points a UTF-8 string can hold above 0x7F
IsEscapedScalar(cp) == cp >= 128 /\ cp <= 1114111 /\ ~(cp >= 55296 /\ cp <= 57343)

CodePointsTried ==
    {cp \in {b + k : b \in CodePointBoundaries, k \in (0 - MaxOffset)..MaxOffset} :
        IsEscapedScalar(cp)}

EscapedStrings ==
    {ValueString(<<cp>>) : cp \in CodePointsTried}
    \cup {ValueString(<<LOWER_A, cp, 98>>) : cp \in CodePointsTried}

InitEscapes ==
    /\ original \in EscapedStrings
    /\ text = <<>>
    /\ value = EmptyImpl
    /\ encoded = <<>>
    /\ pc = "built"
    /\ MachineIdle

SpecEscapes == InitEscapes /\ [][NextRoundTrip]_vars

----------------------------------------------------------------------------
(* A program over Values: variables a and b, later c, and statements on    *)
(* them.  A statement that dereferences a null impl_ ends the program.     *)

MaxOps == 2            \* statements in a run

KeyK == <<107>>        \* "k"

InitialA == {Array(<<ValueInteger(42)>>), Object(<<<<KeyK, Array(<<>>)>>>>), ValueInteger(42)}
InitialB == {ValueOfType("Array")}

Literals == {ValueInteger(5)}
SelectorsTried == {IndexSel(0), IndexSel(1), KeySel(KeyK)}
NegativeIndex == IndexSel(-1)
\* a[sel1][sel2] and a[-1]
LongerPaths == {[slot |-> "a", sels |-> <<NegativeIndex>>]}
               \cup {[slot |-> "a", sels |-> <<s1, s2>>] : s1, s2 \in SelectorsTried}
IndexesTried == {0}
MachineOptions == {DefaultOptions, [DefaultOptions EXCEPT !.reencode = TRUE]}

Paths == {[slot |-> s, sels |-> <<>>] : s \in DOMAIN slots}
         \cup {[slot |-> "a", sels |-> <<sel>>] : sel \in SelectorsTried}
Sources == {Temporary(v) : v \in Literals} \cup {Named(path) : path \in Paths}

Memory == [slots |-> slots, null |-> null]
NullDereference == "null impl_ dereferenced"

Init ==
    /\ slots \in {[a |-> va, b |-> vb] : va \in InitialA, vb \in InitialB}
    /\ null = ValueNull
    /\ fault = "none"
    /\ last = [op |-> "none"]
    /\ steps = 0
    /\ text = <<>> /\ original = EmptyImpl /\ value = EmptyImpl /\ encoded = <<>>
    /\ pc = "program"

Running == fault = "none" /\ steps < MaxOps

\* the state after a statement with outcome res
Becomes(res, record) ==
    /\ slots' = IF res.fault THEN slots ELSE res.mem.slots
    /\ null' = IF res.fault THEN null ELSE res.mem.null
    /\ fault' = IF res.fault THEN NullDereference ELSE "none"
    /\ last' = record
    /\ steps' = steps + 1
    /\ UNCHANGED codecVars

\* The statement  target.op(source), applied to the Values the two
\* expressions name; record describes it.  Statements left out: those whose
\* two expressions are not sequenced (one extends a container the other
\* refers into), and those whose Values overlap in a way `aliasing` does not
\* admit.
Statement(target, source, aliasing, op, record) ==
    \E t \in {Evaluate(Memory, target)} :
    \E s \in {IF source.literal THEN [mem |-> t.mem, loc |-> NullLoc]
              ELSE Evaluate(t.mem, source.path)} :
    \E same \in {~source.literal /\ s.loc = t.loc},
       apart \in {source.literal \/ Disjoint(s.loc, t.loc)} :
       /\ s.mem = t.mem
       /\ source.literal \/ source.path.slot # target.slot \/ t.mem = Memory
       /\ CASE aliasing = "any" -> TRUE
            [] aliasing = "sameOrApart" -> same \/ apart
            [] OTHER -> apart
       /\ \E res \in {Call(op, ReadAt(s.mem, t.loc),
                           IF source.literal THEN source.val ELSE ReadAt(s.mem, s.loc),
                           same, t.loc = NullLoc,
                           ~source.literal /\ s.loc = NullLoc)} :
          \E m1 \in {IF apart /\ ~source.literal THEN WriteAt(s.mem, s.loc, res.other)
                     ELSE s.mem} :
             Becomes([mem |-> WriteAt(m1, t.loc, res.self), fault |-> res.fault],
                     [record EXCEPT !.target = t.loc,
                                    !.source = IF source.literal THEN TemporaryLoc
                                               ELSE s.loc,
                                    !.index = op.index, !.key = op.key])

\* s.ToEncoding(options);
Encode ==
    /\ Running
    /\ \E s \in DOMAIN slots, options \in MachineOptions :
          IF ToEncodingFaults(slots[s], options)
          THEN /\ fault' = NullDereference
               /\ last' = [op |-> "ToEncoding", slot |-> s, options |-> options, text |-> <<>>]
               /\ UNCHANGED slots
          ELSE \E done \in {ToEncoding(slots[s], options)} :
                  /\ slots' = [slots EXCEPT ![s] = done.value]
                  /\ last' = [op |-> "ToEncoding", slot |-> s, options |-> options,
                              text |-> done.text]
                  /\ UNCHANGED fault
    /\ steps' = steps + 1
    /\ UNCHANGED <<null, codecVars>>

\* target[sel];
Index ==
    /\ Running
    /\ \E target \in Paths \cup LongerPaths :
          /\ target.sels # <<>>
          /\ \E e \in {Evaluate(Memory, target)} :
                Becomes([mem |-> e.mem, fault |-> FALSE],
                        [op |-> "Index", target |-> target, found |-> e.loc # NullLoc,
                         type |-> GetType(ReadAt(e.mem, e.loc))])

\* what the record of a statement says before its places are known
Record(op, move) ==
    [op |-> op, move |-> move, target |-> NullLoc, source |-> TemporaryLoc,
     index |-> 0, key |-> <<>>]

\* target.Add(source); and target.Add(std::move(source));
Add ==
    /\ Running
    /\ \E target \in Paths, source \in Sources, move \in BOOLEAN :
          IF move
          THEN Statement(target, source, "sameOrApart", Op("AddMove"), Record("Add", move))
          ELSE Statement(target, source, "any", Op("AddCopy"), Record("Add", move))

\* target.Insert(source, index); and target.Insert(std::move(source), index);
Insert ==
    /\ Running
    /\ \E target \in Paths, source \in Sources, index \in IndexesTried, move \in BOOLEAN :
          IF move
          THEN Statement(target, source, "sameOrApart",
                         [Op("InsertMove") EXCEPT !.index = index], Record("Insert", move))
          ELSE Statement(target, source, "any",
                         [Op("InsertCopy") EXCEPT !.index = index], Record("Insert", move))

\* target.Set("k", source);
SetEntry ==
    /\ Running
    /\ \E target \in Paths, source \in Sources :
          Statement(target, source, "apart", [Op("Set") EXCEPT !.key = KeyK],
                    Record("Set", FALSE))

\* target.Remove(index); and target.Remove("k");
Remove ==
    /\ Running
    /\ \E target \in Paths, sel \in SelectorsTried :
          Statement(target, Temporary(EmptyImpl), "apart",
                    IF sel.byKey THEN [Op("RemoveKey") EXCEPT !.key = sel.key]
                    ELSE [Op("RemoveIndex") EXCEPT !.index = sel.index],
                    Record("Remove", FALSE))

\* target = source; and target = std::move(source);
Assign ==
    /\ Running
    /\ \E target \in Paths, source \in Sources, move \in BOOLEAN :
          Statement(target, source, "sameOrApart",
                    IF move THEN Op("MoveAssign") ELSE Op("CopyAssign"),
                    Record("Assign", move))

\* Json::Value c(source); and Json::Value c(std::move(source));
Construct ==
    /\ Running
    /\ "c" \notin DOMAIN slots
    /\ \E source \in Sources, move \in BOOLEAN :
       \E s \in {IF source.literal THEN [mem |-> Memory, loc |-> NullLoc]
                 ELSE Evaluate(Memory, source.path)} :
       \E other \in {IF source.literal THEN source.val ELSE ReadAt(s.mem, s.loc)} :
       \E res \in {IF move THEN MoveConstruct(other, ~source.literal /\ s.loc = NullLoc)
                   ELSE CopyConstruct(other)} :
       \E m1 \in {IF source.literal THEN s.mem ELSE WriteAt(s.mem, s.loc, res.other)} :
          Becomes([mem |-> [m1 EXCEPT !.slots = [n \in DOMAIN slots \cup {"c"} |->
                                         IF n = "c" THEN res.self ELSE m1.slots[n]]],
                   fault |-> res.fault],
                  [Record("Construct", move) EXCEPT
                      !.target = [slot |-> "c", sels |-> <<>>],
                      !.source = IF source.literal THEN TemporaryLoc ELSE s.loc])

Next == Encode \/ Index \/ Add \/ Insert \/ SetEntry \/ Remove \/ Assign \/ Construct

Spec == Init /\ [][Next]_vars

----------------------------------------------------------------------------
(* Single calls of the indexers and of Insert, Add, Set and Remove on one   *)
(* Value a, with the arguments of every overload; the reference a call     *)
(* returns is optionally assigned through in the same statement.           *)

MaxCalls == 1
MaxSize == 2

KeyOf(i) == <<96 + i>>          \* "a", "b", ...
KeysCalled == {KeyOf(i) : i \in 1..MaxSize}
AbsentKey == KeyOf(MaxSize + 1)

ArrayOfSize(n) == Array([i \in 1..n |-> ValueInteger(i)])
ObjectOfKeys(keys) ==
    Object([i \in 1..Cardinality(keys) |-> <<SortedKeys(keys)[i], ValueInteger(i)>>])

CalledOn ==
    {ArrayOfSize(n) : n \in 0..MaxSize}
    \cup {ObjectOfKeys(keys) : keys \in SUBSET KeysCalled}
    \cup {Array(<<ArrayOfSize(1), ObjectOfKeys({KeyOf(1)})>>),
          ValueInteger(42), ValueNull, NoImpl}

\* the argument of an indexer, by overload
Operand(form, index, key) == [form |-> form, index |-> index, key |-> key]
IndexOperands ==
    {Operand("int", i, NullPointer) : i \in -1..(MaxSize + 1)}
    \cup {Operand("size_t", i, NullPointer) : i \in {0, MaxSize + 1, SIZE_MAX, SIZE_MAX - 1}}
    \cup {Operand("string", 0, CString(k)) : k \in KeysCalled \cup {AbsentKey}}
    \cup {Operand("cstr", 0, k) : k \in {CString(KeyOf(1)), CString(AbsentKey), NullPointer}}
SizesCalled == (0..(MaxSize + 1)) \cup {SIZE_MAX}

Stored == ValueInteger(7)
Assigned == ValueInteger(9)

IndexWith(self, x) ==
    CASE x.form = "int" -> IndexInt(self, x.index)
      [] x.form = "size_t" -> IndexSize(self, x.index)
      [] x.form = "string" -> IndexKey(self, x.key.text)
      [] x.form = "cstr" -> IndexCString(self, x.key)

ConstIndexWith(self, x) ==
    CASE x.form = "int" -> ConstIndexInt(self, x.index)
      [] x.form = "size_t" -> ConstIndexSize(self, x.index)
      [] x.form = "string" -> ConstIndexKey(self, x.key.text)
      [] x.form = "cstr" -> ConstIndexCString(self, x.key)

\* the entry an indexer returns when it does not return the sentinel
EntryOf(x) ==
    IF x.form \in {"int", "size_t"} THEN IndexSel(x.index) ELSE KeySel(x.key.text)

\* ret = val; for the reference ret a call on self returned
AssignThrough(self, nullValue, ret, val) ==
    IF ret.to = "entry"
    THEN [self |-> PutChild(self, ret.sel,
                            CopyAssign(Child(self, ret.sel), val, FALSE, FALSE).self),
          null |-> nullValue]
    ELSE [self |-> self, null |-> CopyAssign(nullValue, val, FALSE, TRUE).self]

InitCalls ==
    /\ slots \in {[a |-> v] : v \in CalledOn}
    /\ null = ValueNull
    /\ fault = "none"
    /\ last = [op |-> "none"]
    /\ steps = 0
    /\ text = <<>> /\ original = EmptyImpl /\ value = EmptyImpl /\ encoded = <<>>
    /\ pc = "calls"

Calling == fault = "none" /\ steps < MaxCalls

\* the state after a call on a that returned ret
Returned(self, ret, assign, failure, record) ==
    \E m \in {IF assign THEN AssignThrough(self, null, ret, Assigned)
               ELSE [self |-> self, null |-> null]} :
       /\ slots' = [slots EXCEPT !["a"] = m.self]
       /\ null' = m.null
       /\ fault' = failure
       /\ last' = [record EXCEPT !.before = slots["a"], !.ret = ret, !.assigned = assign]
       /\ steps' = steps + 1
       /\ UNCHANGED codecVars

CallRecord(op, operand) ==
    [op |-> op, operand |-> operand, before |-> EmptyImpl, ret |-> ReturnsNull,
     assigned |-> FALSE, found |-> FALSE, fails |-> "no"]

\* a[x]; and a[x] = Assigned;
CallIndex ==
    /\ Calling
    /\ \E x \in IndexOperands, assign \in BOOLEAN :
       \E l \in {IndexWith(slots["a"], x)} :
          /\ assign => l.fails = "no"
          /\ Returned(l.self, IF l.found THEN ReturnsEntry(EntryOf(x)) ELSE ReturnsNull,
                      assign, IF l.fails = "no" THEN "none" ELSE l.fails,
                      [CallRecord("Index", x) EXCEPT !.found = l.found, !.fails = l.fails])

\* a[x]; on a const a
CallConstIndex ==
    /\ Calling
    /\ \E x \in IndexOperands :
       \E found \in {ConstIndexWith(slots["a"], x)} :
          Returned(slots["a"], IF found THEN ReturnsEntry(EntryOf(x)) ELSE ReturnsNull,
                   FALSE, "none", [CallRecord("ConstIndex", x) EXCEPT !.found = found])

\* a.Insert(Stored, index); a.Add(Stored); and either followed by = Assigned;
CallInsert ==
    /\ Calling
    /\ \E index \in SizesCalled, add \in BOOLEAN, assign \in BOOLEAN :
       \E res \in {IF add THEN AddCopy(slots["a"], Stored)
                    ELSE InsertCopy(slots["a"], Stored, index)} :
          /\ add => index = 0
          /\ Returned(res.self, res.ret, assign, "none",
                      CallRecord(IF add THEN "Add" ELSE "Insert",
                                 Operand("size_t", index, NullPointer)))

\* a.Set(key, Stored); and a.Set(key, Stored) = Assigned;
CallSet ==
    /\ Calling
    /\ \E key \in KeysCalled \cup {AbsentKey}, assign \in BOOLEAN :
       \E res \in {Set(slots["a"], key, Stored, FALSE)} :
          Returned(res.self, res.ret, assign, "none",
                   CallRecord("Set", Operand("string", 0, CString(key))))

\* a.Remove(index); and a.Remove(key);
CallRemove ==
    /\ Calling
    /\ \/ \E index \in SizesCalled :
             Returned(RemoveIndex(slots["a"], index), ReturnsNull, FALSE, "none",
                      CallRecord("Remove", Operand("size_t", index, NullPointer)))
       \/ \E key \in KeysCalled \cup {AbsentKey} :
             Returned(RemoveKey(slots["a"], key), ReturnsNull, FALSE, "none",
                      CallRecord("Remove", Operand("string", 0, CString(key))))

NextCalls == CallIndex \/ CallConstIndex \/ CallInsert \/ CallSet \/ CallRemove

SpecCalls == InitCalls /\ [][NextCalls]_vars

----------------------------------------------------------------------------
(* Aliased sets: calls a.Set(key, a) and a.Set(key, a[j]) on an Object a. *)

MaxSets == 2        \* calls in a run

SetOn ==
    {ObjectOfKeys(keys) : keys \in SUBSET KeysCalled}
    \cup {Object(<<<<KeyOf(1), ObjectOfKeys({KeyOf(1)})>>>>)}

InitSets ==
    /\ slots \in {[a |-> v] : v \in SetOn}
    /\ null = ValueNull
    /\ fault = "none"
    /\ last = [op |-> "none"]
    /\ steps = 0
    /\ text = <<>> /\ original = EmptyImpl /\ value = EmptyImpl /\ encoded = <<>>
    /\ pc = "program"

\* a.Set(key, a);
SetToSelf ==
    /\ steps < MaxSets
    /\ \E key \in KeysCalled \cup {AbsentKey} :
          /\ slots' = [slots EXCEPT !["a"] = SetAliased(@, key, <<>>).self]
          /\ last' = [op |-> "Set", key |-> key, argument |-> <<>>, before |-> slots["a"]]
    /\ steps' = steps + 1
    /\ UNCHANGED <<codecVars, null, fault>>

\* a.Set(key, a[j]); for a key j that a has
SetToEntry ==
    /\ steps < MaxSets
    /\ \E key \in KeysCalled \cup {AbsentKey}, j \in DOMAIN slots["a"].objectValue :
          /\ slots' = [slots EXCEPT !["a"] = SetAliased(@, key, <<KeySel(j)>>).self]
          /\ last' = [op |-> "Set", key |-> key, argument |-> <<KeySel(j)>>,
                      before |-> slots["a"]]
    /\ steps' = steps + 1
    /\ UNCHANGED <<codecVars, null, fault>>

NextSets == SetToSelf \/ SetToEntry

SpecSets == InitSets /\ [][NextSets]_vars

----------------------------------------------------------------------------
(* Keyed runs: an object text is decoded, then its keys are set, removed    *)
(* and indexed.                                                             *)

MaxPairs == 2       \* most "key":value pairs in a decoded object text
MaxKeyOps == 2      \* calls made on the decoded object

\* spellings of keys: "a", "b", "\u0061", "key"
KeySpellings == {
    [key |-> <<97>>, text |-> <<34, 97, 34>>],
    [key |-> <<98>>, text |-> <<34, 98, 34>>],
    [key |-> <<97>>, text |-> <<34, 92, 117, 48, 48, 54, 49, 34>>],
    [key |-> <<107, 101, 121>>, text |-> <<34, 107, 101, 121, 34>>]
}

\* member texts and the Values they denote: 3, true
KeyedMembers == {
    [text |-> <<51>>, value |-> ValueInteger(3)],
    [text |-> <<116, 114, 117, 101>>, value |-> ValueBoolean(TRUE)]
}

KeyedPairs == {[key |-> k.key, spelling |-> k.text, text |-> m.text, value |-> m.value] :
                  k \in KeySpellings, m \in KeyedMembers}
PairLists == UNION {[1..n -> KeyedPairs] : n \in 0..MaxPairs}

PairsText(pairs) ==
    <<LBRACE>>
    \o Join([i \in 1..Len(pairs) |-> pairs[i].spelling \o <<COLON>> \o pairs[i].text], <<COMMA>>)
    \o <<RBRACE>>

\* keys of the calls: "a", "b", "z"
KeysTried == {<<97>>, <<98>>, <<122>>}

\* the Value stored by the n-th call
StoredBy(n) == ValueInteger(10 + n)

\* the text is written from a list of pairs, which last remembers
InitKeys ==
    /\ \E pairs \in PairLists :
          /\ text = PairsText(pairs)
          /\ last = [op |-> "written", pairs |-> pairs, log |-> <<>>]
    /\ original = EmptyImpl
    /\ value = EmptyImpl
    /\ encoded = <<>>
    /\ pc = "start"
    /\ slots = <<>>
    /\ null = ValueNull
    /\ fault = "none"
    /\ steps = 0

\* Json::Value a = Json::Value::FromEncoding(text)
KeysDecode ==
    /\ pc = "start"
    /\ \E castOk \in BOOLEAN : slots' = [a |-> FromEncoding(text, castOk)]
    /\ last' = [last EXCEPT !.op = "keys"]
    /\ pc' = "keys"
    /\ UNCHANGED <<text, original, value, encoded, null, fault, steps>>

KeysCalling == pc = "keys" /\ steps < MaxKeyOps

KeysReturned(self, entry) ==
    /\ slots' = [slots EXCEPT !["a"] = self]
    /\ last' = [last EXCEPT !.log = Append(@, entry)]
    /\ steps' = steps + 1
    /\ UNCHANGED <<codecVars, null, fault>>

\* a.Set(key, StoredBy(n));
KeysSet ==
    /\ KeysCalling
    /\ \E key \in KeysTried :
          KeysReturned(Set(slots["a"], key, StoredBy(steps), FALSE).self,
                       [op |-> "Set", key |-> key, val |-> StoredBy(steps)])

\* a.Remove(key);
KeysRemove ==
    /\ KeysCalling
    /\ \E key \in KeysTried :
          KeysReturned(RemoveKey(slots["a"], key),
                       [op |-> "Remove", key |-> key, val |-> ValueNull])

\* a[key];
KeysIndex ==
    /\ KeysCalling
    /\ \E key \in KeysTried :
          KeysReturned(IndexKey(slots["a"], key).self,
                       [op |-> "Index", key |-> key, val |-> ValueNull])

\* a[key] = StoredBy(n);
KeysIndexAssign ==
    /\ KeysCalling
    /\ \E key \in KeysTried :
       \E l \in {IndexKey(slots["a"], key)} :
          KeysReturned(AssignThrough(l.self, null, ReturnsEntry(KeySel(key)), StoredBy(steps)).self,
                       [op |-> "IndexAssign", key |-> key, val |-> StoredBy(steps)])

NextKeys == KeysDecode \/ KeysSet \/ KeysRemove \/ KeysIndex \/ KeysIndexAssign

SpecKeys == InitKeys /\ [][NextKeys]_vars

----------------------------------------------------------------------------
(* Reference readings of the JSON grammar, written from RFC 7159 and used  *)
(* only to state properties of the decoder.                                *)

AllDigits(t) == \A i \in 1..Len(t) : IsDigit(t[i])

\* 0 | [1-9][0-9]*
IsIntPart(t) == Len(t) > 0 /\ AllDigits(t) /\ (t[1] = DIGIT0 => Len(t) = 1)
\* ( \. [0-9]+ )?
IsOptFraction(t) == t = <<>> \/ (Len(t) >= 2 /\ t[1] = DOT /\ AllDigits(Tail(t)))
\* ( [eE] [+-]? [0-9]+ )?
IsOptExponent(t) ==
    \/ t = <<>>
    \/ /\ Len(t) >= 2
       /\ t[1] \in {LOWER_E, UPPER_E}
       /\ LET rest == IF t[2] \in {PLUS, MINUS} THEN SubSeq(t, 3, Len(t)) ELSE Tail(t)
          IN  Len(rest) > 0 /\ AllDigits(rest)

Unsigned(t) == IF Len(t) > 0 /\ t[1] = MINUS THEN Tail(t) ELSE t

\* -?(0|[1-9][0-9]*)
MatchesIntegerGrammar(t) == IsIntPart(Unsigned(t))

\* -?(0|[1-9][0-9]*)(\.[0-9]+)?([eE][+-]?[0-9]+)?
MatchesFloatGrammar(t) ==
    LET u == Unsigned(t)
    IN  \E i \in 1..Len(u) : \E j \in i..Len(u) :
            /\ IsIntPart(SubSeq(u, 1, i))
            /\ IsOptFraction(SubSeq(u, i + 1, j))
            /\ IsOptExponent(SubSeq(u, j + 1, Len(u)))

\* the integer literal t denotes a value of a 32-bit signed int
DenotesInt32(t) ==
    LET digits == [i \in 1..Len(Unsigned(t)) |-> Unsigned(t)[i] - DIGIT0]
    IN  /\ MatchesIntegerGrammar(t)
        /\ IF t[1] = MINUS THEN ~DecLess(INT_LOWEST_MAGNITUDE, digits)
           ELSE ~DecLess(INT_MAX, digits)

IsBracketed(t) ==
    /\ Len(t) > 0
    /\ \/ t[1] = LBRACE /\ t[Len(t)] = RBRACE
       \/ t[1] = LBRACKET /\ t[Len(t)] = RBRACKET
IsQuoted(t) == Len(t) > 0 /\ t[1] = QUOTE /\ t[Len(t)] = QUOTE
IsLiteral(t) == t \in {LiteralNull, LiteralTrue, LiteralFalse}
IsNumberCandidate(t) == Len(t) > 0 /\ ~IsBracketed(t) /\ ~IsQuoted(t) /\ ~IsLiteral(t)
HasFloatMarker(t) == \E i \in 1..Len(t) : t[i] \in FloatMarkers

\* The escapes of the inside of a quoted string, read left to right:
\* "char" an ordinary character, "esc" a two-character escape, "uni" a
\* \uXXXX escape with its value, "bad" a malformed escape (reading stops).
EscapeLetters == {34, 92, 47, 98, 102, 110, 114, 116}
HexDigits == (DIGIT0..DIGIT9) \cup (UPPER_A..UPPER_F) \cup (LOWER_A..LOWER_F)

RECURSIVE HexNumber(_)
HexNumber(t) ==
    IF t = <<>> THEN 0 ELSE HexNumber(SubSeq(t, 1, Len(t) - 1)) * 16 + HexValue(t[Len(t)])

RECURSIVE Escapes(_, _)
Escapes(s, i) ==
    IF i > Len(s) THEN <<>>
    ELSE IF s[i] # BACKSLASH THEN <<[kind |-> "char", cp |-> s[i]]>> \o Escapes(s, i + 1)
    ELSE IF i = Len(s) THEN <<[kind |-> "bad", cp |-> 0]>>
    ELSE IF s[i + 1] = LOWER_U
    THEN IF i + 5 <= Len(s) /\ \A j \in (i + 2)..(i + 5) : s[j] \in HexDigits
         THEN <<[kind |-> "uni", cp |-> HexNumber(SubSeq(s, i + 2, i + 5))]>> \o Escapes(s, i + 6)
         ELSE <<[kind |-> "bad", cp |-> 0]>>
    ELSE IF s[i + 1] \in EscapeLetters
    THEN <<[kind |-> "esc", cp |-> s[i + 1]]>> \o Escapes(s, i + 2)
    ELSE <<[kind |-> "bad", cp |-> 0]>>

IsSurrogateEscape(tok) == tok.kind = "uni" /\ tok.cp >= 55296 /\ tok.cp <= 57343
IsHighHalf(tok) == tok.kind = "uni" /\ tok.cp >= 55296 /\ tok.cp <= 56319
IsLowHalf(tok) == tok.kind = "uni" /\ tok.cp >= 56320 /\ tok.cp <= 57343

\* token i opens a pair: it is a surrogate escape at an even distance from
\* the start of its run of consecutive surrogate escapes
RECURSIVE OpensPair(_, _)
OpensPair(toks, i) ==
    /\ IsSurrogateEscape(toks[i])
    /\ (i = 1 \/ ~IsSurrogateEscape(toks[i - 1]) \/ ~OpensPair(toks, i - 1))

\* a surrogate escape that no second surrogate escape follows
HasLoneSurrogateEscape(s) ==
    LET toks == Escapes(s, 1)
    IN  \E i \in 1..Len(toks) :
            /\ OpensPair(toks, i)
            /\ (i = Len(toks) \/ ~IsSurrogateEscape(toks[i + 1]))

\* two consecutive surrogate escapes that are not a high half then a low half
HasBadSurrogatePair(s) ==
    LET toks == Escapes(s, 1)
    IN  \E i \in 1..(Len(toks) - 1) :
            /\ OpensPair(toks, i)
            /\ IsSurrogateEscape(toks[i + 1])
            /\ ~(IsHighHalf(toks[i]) /\ IsLowHalf(toks[i + 1]))

\* an unknown escape letter, a short or non-hex \u, or a trailing backslash
HasBadEscape(s) ==
    LET toks == Escapes(s, 1)
    IN  Len(toks) > 0 /\ toks[Len(toks)].kind = "bad"

Inside(t) == SubSeq(t, 2, Len(t) - 1)

\* some member of an array or object of the tree has type Invalid
RECURSIVE HasInvalidMember(_)
HasInvalidMember(v) ==
    \/ /\ GetType(v) = "Array"
       /\ \E i \in 1..Len(v.arrayValue) :
             GetType(v.arrayValue[i]) = "Invalid" \/ HasInvalidMember(v.arrayValue[i])
    \/ /\ GetType(v) = "Object"
       /\ \E k \in DOMAIN v.objectValue :
             GetType(v.objectValue[k]) = "Invalid" \/ HasInvalidMember(v.objectValue[k])

----------------------------------------------------------------------------
(* Property of the round trip, checked under SpecRoundTrip *)

\* C1: for every Value built from Null, Boolean, Integer, String, Array and
\* Object parts, decoding its encoding (default options or escapeNonAscii)
\* gives a Value equal to it.
C1_RoundTrip ==
    pc = "reparsed" => Equals(value, original)

----------------------------------------------------------------------------
(* Properties of the decoder, checked under SpecDecode *)

\* C5: no Array or Object returned by FromEncoding holds an Invalid element
\* or entry value at any depth: an Invalid member makes the enclosing
\* container Invalid.
C5_InvalidMembersNeverKept ==
    pc = "decoded" => ~HasInvalidMember(value)

\* C6: a number text with one of + . e E decodes to a FloatingPoint only if
\* it matches -?(0|[1-9][0-9]*)(\.[0-9]+)?([eE][+-]?[0-9]+)? and to Invalid
\* otherwise.
C6_FloatingPointGrammar ==
    (pc = "decoded" /\ IsNumberCandidate(Trimmed(text)) /\ HasFloatMarker(Trimmed(text)))
    => IF MatchesFloatGrammar(Trimmed(text))
       THEN GetType(value) \in {"FloatingPoint", "Invalid"}
       ELSE GetType(value) = "Invalid"

\* C7: a number text without + . e E decodes to the Integer n exactly when
\* it is the literal -?(0|[1-9][0-9]*) of an n in -2^31..2^31-1, and to
\* Invalid otherwise.
C7_IntegerGrammarAndRange ==
    (pc = "decoded" /\ IsNumberCandidate(Trimmed(text)) /\ ~HasFloatMarker(Trimmed(text)))
    => IF DenotesInt32(Trimmed(text))
       THEN /\ GetType(value) = "Integer"
            /\ \/ IntToText(value.integerValue) = Trimmed(text)
               \/ Trimmed(text) = <<MINUS, DIGIT0>> /\ value.integerValue = 0
       ELSE GetType(value) = "Invalid"

\* the limits of int are decoded, one beyond them is refused
C7_Witness ==
    /\ pc = "decoded"
    /\ \/ /\ Trimmed(text) = <<45, 50, 49, 52, 55, 52, 56, 51, 54, 52, 56>>
          /\ GetType(value) = "Integer" /\ value.integerValue = -2147483647 - 1
       \/ /\ Trimmed(text) = <<50, 49, 52, 55, 52, 56, 51, 54, 52, 56>>
          /\ GetType(value) = "Invalid"

\* C8: a quoted string with a surrogate-range \uXXXX escape that no second
\* surrogate escape follows decodes to Invalid, and ToEncoding then returns
\* "(Invalid JSON: <trimmed text>)".
C8_LoneSurrogateIsInvalid ==
    (pc \in {"decoded", "encoded"} /\ IsQuoted(Trimmed(text)) /\ Len(Trimmed(text)) >= 2
        /\ HasLoneSurrogateEscape(Inside(Trimmed(text))))
    => /\ GetType(value) = "Invalid"
       /\ pc = "encoded" => encoded = InvalidPrefix \o Trimmed(text) \o InvalidSuffix

\* C9: a quoted string with a malformed escape, or with two consecutive
\* surrogate escapes that are not a high half followed by a low half,
\* decodes to Invalid.
C9_EscapeFailuresAreInvalid ==
    (pc = "decoded" /\ IsQuoted(Trimmed(text)) /\ Len(Trimmed(text)) >= 2
        /\ (HasBadEscape(Inside(Trimmed(text))) \/ HasBadSurrogatePair(Inside(Trimmed(text)))))
    => GetType(value) = "Invalid"

----------------------------------------------------------------------------
(* Properties of the cached encoding *)

\* C2: after FromEncoding of an accepted text, ToEncoding() with default
\* options returns the same text when called again, and that text is the
\* one ToEncoding returns with reencode set.
C2_EncodingIsIdempotent ==
    (pc = "encoded" /\ last.options = DefaultOptions
        /\ GetType(value) # "Invalid" /\ ~HasInvalidMember(value))
    => /\ ToEncoding(value, DefaultOptions).text = encoded
       /\ ToEncoding(value, [DefaultOptions EXCEPT !.reencode = TRUE]).text = encoded

Mutators == {"Add", "Insert", "Set", "Remove", "Assign", "Index"}

\* C3: after a statement that changes the contents of an Array or Object
\* (Add, Insert, Set, Remove, an extending or upserting index, an assignment
\* through a returned reference, a change of a nested child), ToEncoding()
\* with default options returns the encoding of the current contents.
C3_CacheInvalidation ==
    [][(steps' = steps + 1 /\ last'.op \in Mutators /\ fault' = "none")
       => \A s \in DOMAIN slots :
             (/\ GetType(slots'[s]) \in {"Array", "Object"}
              /\ ~HasNullImpl(slots'[s])
              /\ ~Equals(slots[s], slots'[s]))
             => ToEncoding(slots'[s], DefaultOptions).text
                = ToEncoding(CopyFrom(slots'[s]), DefaultOptions).text]_vars

----------------------------------------------------------------------------
(* Properties of the program over Values, checked under Spec *)

\* C4: whatever statements were applied to a reference returned by a failed
\* lookup, the sentinel has type Null, and a failed lookup returns a
\* Null-typed value.
C4_SentinelStaysNull ==
    /\ GetType(null) = "Null"
    /\ (last.op = "Index" /\ ~last.found) => last.type = "Null"

\* the sentinel was moved from to construct c, and a later lookup failed
C4_Witness ==
    /\ last.op = "Index" /\ ~last.found /\ last.type = "Null"
    /\ "c" \in DOMAIN slots /\ ~slots["c"].impl

\* C10: s.Add(s) and s.Add(std::move(s)) on an Array s leave s an Array of
\* its old elements followed by one element equal to the old s.
C10_SelfAdd ==
    [][\A s \in DOMAIN slots :
          (/\ steps' = steps + 1
           /\ last'.op = "Add"
           /\ last'.target = [slot |-> s, sels |-> <<>>]
           /\ last'.source = last'.target
           /\ GetType(slots[s]) = "Array"
           /\ ~HasNullImpl(slots[s]))
          => /\ fault' = "none"
             /\ GetType(slots'[s]) = "Array"
             /\ Len(slots'[s].arrayValue) = Len(slots[s].arrayValue) + 1
             /\ \A i \in 1..Len(slots[s].arrayValue) :
                   Equals(slots'[s].arrayValue[i], slots[s].arrayValue[i])
             /\ Equals(slots'[s].arrayValue[Len(slots'[s].arrayValue)], slots[s])]_vars

\* a = [42] after a.Add(std::move(a)) encodes as [42,[42]]
C10_Witness ==
    /\ last.op = "Add" /\ last.move
    /\ last.target = [slot |-> "a", sels |-> <<>>]
    /\ last.source = last.target
    /\ fault = "none"
    /\ ToEncoding(CopyFrom(slots["a"]), DefaultOptions).text = <<91, 52, 50, 44, 91, 52, 50, 93, 93>>

----------------------------------------------------------------------------
(* Moves and copies, checked under Spec *)

\* the memory after the step
MemoryAfter == [slots |-> slots', null |-> null']

\* the Value a place names once the expression naming it was evaluated: an
\* entry the evaluation itself created is Null
RECURSIVE Exists(_, _)
Exists(v, sels) ==
    \/ sels = <<>>
    \/ /\ v.impl
       /\ IF Head(sels).byKey
          THEN v.type = "Object" /\ Head(sels).key \in DOMAIN v.objectValue
          ELSE v.type = "Array" /\ Head(sels).index + 1 \in 1..Len(v.arrayValue)
       /\ Exists(Child(v, Head(sels)), Tail(sels))
Evaluated(loc) ==
    IF loc.slot = "null" THEN null
    ELSE IF loc.slot \in DOMAIN slots /\ Exists(slots[loc.slot], loc.sels)
    THEN ReadAt(Memory, loc) ELSE ValueNull

\* the step is a statement that moves from one Value of the program into or
\* onto another one, neither being the sentinel nor a part of the other
MovesBetweenDistinctValues ==
    /\ steps' = steps + 1
    /\ last'.op \in {"Construct", "Assign", "Add", "Insert"}
    /\ last'.move
    /\ last'.source.slot \notin {"null", "temporary"}
    /\ last'.target.slot # "null"
    /\ Disjoint(last'.target, last'.source)

\* the element a successful Add or Insert stored
Inserted(container, index) ==
    container.arrayValue[IF index < Len(container.arrayValue) - 1
                         THEN index + 1 ELSE Len(container.arrayValue)]

CopiesAValue ==
    /\ steps' = steps + 1
    /\ last'.op \in {"Construct", "Assign"}
    /\ ~last'.move
    /\ last'.source.slot # "temporary"
    /\ last'.target.slot # "null"
    /\ ~HasNullImpl(Evaluated(last'.source))

\* the Values of the program a statement names
ValuesNamed(record) ==
    IF record.op = "ToEncoding" THEN {record.slot}
    ELSE IF record.op = "Index" THEN {record.target.slot}
    ELSE {record.target.slot, record.source.slot}

----------------------------------------------------------------------------
(* Indexers and mutators, checked under SpecCalls *)

\* the call recorded was a[i] on an Array, with an index some vector can have
IndexedAnArray ==
    /\ last.op \in {"Index", "ConstIndex"}
    /\ last.operand.form \in {"int", "size_t"}
    /\ GetType(last.before) = "Array"
    /\ last.fails # "length_error"

\* the elements after a[i] = Assigned, or after a[i] alone
ElementsExpected(elements) ==
    IF last.assigned
    THEN [elements EXCEPT ![last.operand.index + 1] = Assigned]
    ELSE elements

\* C13: on an Array of size n, non-const a[i] with 0 <= i < n returns
\* element i and changes nothing; with i >= n it makes the size i + 1,
\* keeps the elements, fills n..i with Null and returns position i;
\* non-const a[i] with i < 0 and const a[i] with i < 0 or i >= n return the
\* sentinel and leave size and elements unchanged, also when a value is
\* assigned through the reference.
C13_ArrayIndexing ==
    IndexedAnArray
    => LET before == last.before.arrayValue
           after == slots["a"].arrayValue
           n == Len(before)
           i == last.operand.index
           negative == last.operand.form = "int" /\ i < 0
       IN  IF ~negative /\ SizeLess(i, n)
           THEN /\ last.ret = ReturnsEntry(IndexSel(i))
                /\ after = ElementsExpected(before)
                /\ ~last.assigned => slots["a"] = last.before
           ELSE IF negative \/ last.op = "ConstIndex"
           THEN /\ last.ret = ReturnsNull
                /\ slots["a"] = last.before
                /\ null = ValueNull
           ELSE /\ last.fails = "no"
                /\ last.ret = ReturnsEntry(IndexSel(i))
                /\ Len(after) = i + 1
                /\ after = ElementsExpected(before \o [j \in 1..(i + 1 - n) |-> ValueNull])

\* the call recorded was a[key] for a text or a const char* key
IndexedByKey ==
    /\ last.op \in {"Index", "ConstIndex"}
    /\ last.operand.form \in {"string", "cstr"}

\* C14: non-const obj[key] on an Object without the key inserts exactly the
\* entry key -> Null and returns a reference to it, so that a value assigned
\* through it is the entry's value afterwards; const obj[key] without the
\* key, and either form with a null key pointer or on a non-Object, return
\* the sentinel, insert nothing and change neither the Value nor the
\* sentinel.
C14_KeyIndexing ==
    IndexedByKey
    => LET key == last.operand.key.text
           present == Has(last.before, key) /\ ~last.operand.key.isNull
           upserts == /\ last.op = "Index"
                      /\ GetType(last.before) = "Object"
                      /\ ~last.operand.key.isNull
                      /\ ~Has(last.before, key)
       IN  IF upserts
           THEN /\ last.ret = ReturnsEntry(KeySel(key))
                /\ GetSize(slots["a"]) = GetSize(last.before) + 1
                /\ DOMAIN slots["a"].objectValue = DOMAIN last.before.objectValue \cup {key}
                /\ \A k \in DOMAIN last.before.objectValue :
                      slots["a"].objectValue[k] = last.before.objectValue[k]
                /\ Equals(slots["a"].objectValue[key],
                          IF last.assigned THEN Assigned ELSE ValueNull)
                /\ GetType(slots["a"].objectValue[key])
                   = IF last.assigned THEN "Integer" ELSE "Null"
           ELSE IF present
           THEN last.ret = ReturnsEntry(KeySel(key))
           ELSE /\ last.ret = ReturnsNull
                /\ slots["a"] = last.before
                /\ null = ValueNull

\* {"a":1} after obj["c"] = 9 has the entries a -> 1 and c -> 9
C14_Witness ==
    /\ last.op = "Index" /\ last.operand.form = "string" /\ last.assigned
    /\ GetType(last.before) = "Object" /\ GetKeys(last.before) = <<KeyOf(1)>>
    /\ GetKeys(slots["a"]) = <<KeyOf(1), AbsentKey>>
    /\ slots["a"].objectValue[AbsentKey].integerValue = 9

\* what the entry a call stored holds once the statement is over
StoredOrAssigned == IF last.assigned THEN Assigned ELSE Stored

\* C15: Insert(v, i) on an Array of size n gives size n + 1 with an element
\* equal to v at position min(i, n) and the former elements in their order;
\* Add(v) is Insert(v, n); the reference Add, Insert and Set return names
\* the element just stored, so that a value assigned through it is that
\* element's value afterwards.
C15_InsertAndReturnedReferences ==
    /\ (last.op \in {"Insert", "Add"} /\ GetType(last.before) = "Array")
       => LET before == last.before.arrayValue
              after == slots["a"].arrayValue
              n == Len(before)
              i == last.operand.index
              at == IF last.op = "Add" \/ i < 0 \/ i > n THEN n ELSE i
          IN  /\ GetType(slots["a"]) = "Array"
              /\ Len(after) = n + 1
              /\ \A j \in 1..at : after[j] = before[j]
              /\ \A j \in (at + 1)..n : after[j + 1] = before[j]
              /\ Equals(after[at + 1], StoredOrAssigned)
              /\ GetType(after[at + 1]) = "Integer"
              /\ last.ret = ReturnsEntry(IndexSel(at))
              /\ (last.op = "Add" /\ ~last.assigned)
                 => slots["a"] = InsertCopy(last.before, Stored, n).self
    /\ (last.op = "Set" /\ GetType(last.before) = "Object")
       => /\ last.ret = ReturnsEntry(KeySel(last.operand.key.text))
          /\ Has(slots["a"], last.operand.key.text)
          /\ Equals(slots["a"].objectValue[last.operand.key.text], StoredOrAssigned)
          /\ GetType(slots["a"].objectValue[last.operand.key.text]) = "Integer"

\* [1,2] after a.Insert(7, 3) = 9 is [1,2,9]
C15_Witness ==
    /\ last.op = "Insert" /\ last.assigned
    /\ GetType(last.before) = "Array" /\ Len(last.before.arrayValue) = 2
    /\ last.operand.index = 3
    /\ ToEncoding(CopyFrom(slots["a"]), DefaultOptions).text = <<91, 49, 44, 50, 44, 57, 93>>

\* type and contents of a Value, leaving the cached encoding aside
Contents(v) == [v EXCEPT !.encoding = <<>>]

\* C16: Add and Insert on a Value that is not an Array and Set on one that
\* is not an Object return the sentinel and leave type and contents as they
\* were; so do Remove(index) on a non-Array or with index >= size and
\* Remove(key) on a non-Object or with an absent key; Remove(index) with
\* index < size removes that element and keeps the order of the others.
C16_HarmlessMutators ==
    /\ (last.op \in {"Insert", "Add"} /\ GetType(last.before) # "Array")
       => /\ last.ret = ReturnsNull
          /\ slots["a"] = last.before
          /\ null = ValueNull
    /\ (last.op = "Set" /\ GetType(last.before) # "Object")
       => /\ last.ret = ReturnsNull
          /\ slots["a"] = last.before
          /\ null = ValueNull
    /\ (last.op = "Remove" /\ last.operand.form = "size_t")
       => LET i == last.operand.index
          IN  IF GetType(last.before) = "Array" /\ 0 <= i /\ i < Len(last.before.arrayValue)
              THEN /\ GetType(slots["a"]) = "Array"
                   /\ Len(slots["a"].arrayValue) = Len(last.before.arrayValue) - 1
                   /\ \A j \in 1..i : slots["a"].arrayValue[j] = last.before.arrayValue[j]
                   /\ \A j \in (i + 1)..Len(slots["a"].arrayValue) :
                         slots["a"].arrayValue[j] = last.before.arrayValue[j + 1]
              ELSE Contents(slots["a"]) = Contents(last.before)
    /\ (last.op = "Remove" /\ last.operand.form = "string"
          /\ ~Has(last.before, last.operand.key.text))
       => Contents(slots["a"]) = Contents(last.before)

\* a.Remove(2) on [1,2] changed nothing
C16_Witness ==
    /\ last.op = "Remove" /\ last.operand.form = "size_t" /\ last.operand.index = 2
    /\ GetType(last.before) = "Array" /\ Len(last.before.arrayValue) = 2
    /\ slots["a"] = last.before

----------------------------------------------------------------------------
(* Pretty runs: a Value is built and encoded with pretty and reencode set. *)

MaxPrettyMembers == 2    \* most members of an innermost container
MaxThreshold == 13       \* largest wrapThreshold tried below the default

\* 1, "ab"
PrettyLeaves == {ValueInteger(1), ValueString(<<97, 98>>)}

PrettyInner ==
    {Array(l) : l \in UNION {[1..n -> PrettyLeaves] : n \in 0..MaxPrettyMembers}}
    \cup {ValueOfType("Object")}
    \cup {Object(<<<<<<97>>, x>>>>) : x \in PrettyLeaves}
    \cup {Object(<<<<<<97>>, x>>, <<<<98>>, y>>>>) : x, y \in PrettyLeaves}

PrettyMiddle ==
    {Array(<<x>>) : x \in PrettyInner}
    \cup {Array(<<x, y>>) : x, y \in PrettyInner \cup {ValueInteger(1)}}
    \cup {Object(<<<<<<97>>, x>>>>) : x \in PrettyInner}
    \cup {Object(<<<<<<97>>, x>>, <<<<98>>, y>>>>) : x \in {ValueInteger(1)}, y \in PrettyInner}

PrettyOuter ==
    {Array(<<x>>) : x \in PrettyMiddle}
    \cup {Object(<<<<<<97>>, x>>>>) : x \in PrettyMiddle}

\* [1,[2,3],4,[5,6,7]]
PrettyPrintingArray ==
    Array(<<ValueInteger(1), Array(<<ValueInteger(2), ValueInteger(3)>>), ValueInteger(4),
            Array(<<ValueInteger(5), ValueInteger(6), ValueInteger(7)>>)>>)

PrettyValues ==
    PrettyLeaves \cup PrettyInner \cup PrettyMiddle \cup PrettyOuter \cup {PrettyPrintingArray}

PrettyOptions ==
    {[DefaultOptions EXCEPT !.pretty = TRUE, !.reencode = TRUE,
                            !.spacesPerIndentationLevel = spaces, !.wrapThreshold = threshold] :
        spaces \in {0, 1, 2, 4}, threshold \in (0..MaxThreshold) \cup {60}}

InitPretty ==
    /\ original \in PrettyValues
    /\ text = <<>>
    /\ value = EmptyImpl
    /\ encoded = <<>>
    /\ pc = "built"
    /\ MachineIdle

\* encoded = original.ToEncoding(options)
EncodePretty ==
    /\ pc = "built"
    /\ \E options \in PrettyOptions :
       \E done \in {ToEncoding(original, options)} :
          /\ encoded' = done.text
          /\ original' = done.value
          /\ last' = [op |-> "ToEncoding", options |-> options]
    /\ pc' = "encoded"
    /\ UNCHANGED <<text, value, slots, null, fault, steps>>

NextPretty == EncodePretty

SpecPretty == InitPretty /\ [][NextPretty]_vars

----------------------------------------------------------------------------
(* Comparisons: three Values are built and compared with == and !=. *)

MaxCompared == 2    \* most elements of a compared array

\* 1, 2, "1"
ComparedParts == {ValueInteger(1), ValueInteger(2), ValueString(<<49>>)}

\* an Invalid Value carrying a diagnostic text, an Integer carrying a cache
InvalidWithText == [EmptyImpl EXCEPT !.encoding = <<49, 101>>]
IntegerWithCache == [ValueInteger(1) EXCEPT !.encoding = <<49>>]

ComparedScalars ==
    {ValueNull, EmptyImpl, InvalidWithText, NoImpl, ValueBoolean(TRUE), ValueBoolean(FALSE),
     IntegerWithCache, ValueString(<<97>>)}
    \cup ComparedParts

ComparedArrays ==
    {Array(l) : l \in UNION {[1..n -> ComparedParts] : n \in 0..MaxCompared}}

ComparedObjects ==
    {ValueOfType("Object")}
    \cup {Object(<<<<k, x>>>>) : k \in {<<97>>, <<98>>}, x \in ComparedParts}
    \cup {Object(<<<<<<97>>, x>>, <<<<98>>, y>>>>) : x, y \in ComparedParts}

ComparedNested ==
    {Array(<<Array(<<ValueInteger(1)>>)>>), Array(<<Array(<<ValueInteger(2)>>)>>),
     Array(<<Object(<<<<<<97>>, ValueInteger(1)>>>>)>>),
     Object(<<<<<<97>>, Array(<<ValueInteger(1)>>)>>>>),
     Array(<<ValueNull>>), Array(<<InvalidWithText>>), Array(<<NoImpl>>)}

Compared == ComparedScalars \cup ComparedArrays \cup ComparedObjects \cup ComparedNested

InitEquals ==
    /\ slots \in {[a |-> x, b |-> y, c |-> z] : x, y, z \in Compared}
    /\ null = ValueNull
    /\ fault = "none"
    /\ last = [op |-> "none"]
    /\ steps = 0
    /\ text = <<>> /\ original = EmptyImpl /\ value = EmptyImpl /\ encoded = <<>>
    /\ pc = "built"

\* a == a, a == b, b == a, b == c, a == c and a != b
Compare ==
    /\ pc = "built"
    /\ last' = [op |-> "compare",
                aa |-> Equals(slots["a"], slots["a"]),
                ab |-> Equals(slots["a"], slots["b"]),
                ba |-> Equals(slots["b"], slots["a"]),
                bc |-> Equals(slots["b"], slots["c"]),
                ac |-> Equals(slots["a"], slots["c"]),
                differ |-> NotEquals(slots["a"], slots["b"])]
    /\ pc' = "compared"
    /\ UNCHANGED <<text, original, value, encoded, slots, null, fault, steps>>

NextEquals == Compare

SpecEquals == InitEquals /\ [][NextEquals]_vars

----------------------------------------------------------------------------
(* Properties of object keys, checked under SpecKeys *)

\* key -> Value after storing the pairs in order, a later pair replacing an
\* earlier one of the same key
RECURSIVE LatestOfPairs(_)
LatestOfPairs(pairs) ==
    IF pairs = <<>> THEN <<>>
    ELSE LET earlier == LatestOfPairs(SubSeq(pairs, 1, Len(pairs) - 1))
             p == pairs[Len(pairs)]
         IN  [k \in DOMAIN earlier \cup {p.key} |-> IF k = p.key THEN p.value ELSE earlier[k]]

\* key -> Value after the calls of the log
RECURSIVE LatestAfter(_, _)
LatestAfter(stored, log) ==
    IF log = <<>> THEN stored
    ELSE LET earlier == LatestAfter(stored, SubSeq(log, 1, Len(log) - 1))
             e == log[Len(log)]
         IN  CASE e.op = "Remove" -> [k \in DOMAIN earlier \ {e.key} |-> earlier[k]]
               [] e.op = "Index" /\ e.key \in DOMAIN earlier -> earlier
               [] OTHER -> [k \in DOMAIN earlier \cup {e.key} |->
                               IF k = e.key THEN e.val ELSE earlier[k]]

Latest == LatestAfter(LatestOfPairs(last.pairs), last.log)

\* C17: after decoding an object text, repeated keys included, and after any
\* calls of Set, Remove(key) and the upserting operator[], GetSize() is the
\* number of distinct keys present, GetKeys() lists each present key once in
\* ascending order, Has(k) holds exactly for those keys and the entry of k
\* equals the Value most recently stored for k.
C17_KeysUniqueLastWriteWins ==
    pc = "keys"
    => LET obj == slots["a"]
           keys == GetKeys(obj)
       IN  /\ GetType(obj) = "Object"
           /\ GetSize(obj) = Cardinality(DOMAIN Latest)
           /\ Len(keys) = GetSize(obj)
           /\ {keys[i] : i \in 1..Len(keys)} = DOMAIN Latest
           /\ \A i \in 1..(Len(keys) - 1) : KeyLess(keys[i], keys[i + 1])
           /\ \A k \in KeysTried \cup {p.key : p \in KeyedPairs} :
                 Has(obj, k) <=> k \in DOMAIN Latest
           /\ \A k \in DOMAIN Latest :
                 /\ ConstIndexKey(obj, k)
                 /\ GetType(obj.objectValue[k]) = GetType(Latest[k])
                 /\ Equals(obj.objectValue[k], Latest[k])

\* {"key":3,"key":true} decoded: one key, holding true
C17_WitnessDecoded ==
    /\ pc = "keys" /\ last.log = <<>>
    /\ text = <<123, 34, 107, 101, 121, 34, 58, 51, 44, 34, 107, 101, 121, 34, 58, 116, 114, 117, 101, 125>>
    /\ GetSize(slots["a"]) = 1
    /\ Equals(slots["a"].objectValue[<<107, 101, 121>>], ValueBoolean(TRUE))

----------------------------------------------------------------------------
(* Properties of == and !=, checked under SpecEquals *)

\* same type and, by type, same payload
RECURSIVE SameStructure(_, _)
SameStructure(a, b) ==
    /\ GetType(a) = GetType(b)
    /\ GetType(a) = "Boolean" => (a.booleanValue <=> b.booleanValue)
    /\ GetType(a) = "Integer" => a.integerValue = b.integerValue
    /\ GetType(a) = "String" => a.stringValue = b.stringValue
    /\ GetType(a) = "Array"
       => /\ Len(a.arrayValue) = Len(b.arrayValue)
          /\ \A i \in 1..Len(a.arrayValue) : SameStructure(a.arrayValue[i], b.arrayValue[i])
    /\ GetType(a) = "Object"
       => /\ DOMAIN a.objectValue = DOMAIN b.objectValue
          /\ \A k \in DOMAIN a.objectValue : SameStructure(a.objectValue[k], b.objectValue[k])

\* C18: a == b holds exactly when a and b have the same type and the same
\* payload (arrays element by element in order, objects key by key); Null
\* equals Null and Invalid equals Invalid whatever text or cache is carried;
\* Values of different types are never equal; without FloatingPoint parts
\* == is reflexive, symmetric and transitive, and != is its negation.
C18_StructuralEquality ==
    pc = "compared"
    => /\ last.ab <=> SameStructure(slots["a"], slots["b"])
       /\ GetType(slots["a"]) # GetType(slots["b"]) => ~last.ab
       /\ (GetType(slots["a"]) \in {"Null", "Invalid"} /\ GetType(slots["a"]) = GetType(slots["b"]))
          => last.ab
       /\ last.aa
       /\ last.ab <=> last.ba
       /\ (last.ab /\ last.bc) => last.ac
       /\ last.differ <=> ~last.ab

\* [1,2] == [1,2] and [1,2] != [2,1]
C18_Witness ==
    /\ pc = "compared"
    /\ slots["a"] = Array(<<ValueInteger(1), ValueInteger(2)>>)
    /\ slots["b"] = Array(<<ValueInteger(1), ValueInteger(2)>>)
    /\ slots["c"] = Array(<<ValueInteger(2), ValueInteger(1)>>)
    /\ last.ab /\ ~last.bc /\ ~last.differ

----------------------------------------------------------------------------
(* Properties of pretty-printing, checked under SpecPretty *)

IsContainer(v) == GetType(v) \in {"Array", "Object"}

Opening(v) == IF GetType(v) = "Array" THEN <<LBRACKET>> ELSE <<LBRACE>>
Closing(v) == IF GetType(v) = "Array" THEN <<RBRACKET>> ELSE <<RBRACE>>

\* the members of a container, each rendered by layout(member) and, in an
\* object, preceded by its key and ": "
MembersLaidOut(v, layout(_)) ==
    IF GetType(v) = "Array"
    THEN [i \in 1..Len(v.arrayValue) |-> layout(v.arrayValue[i])]
    ELSE LET keys == GetKeys(v)
         IN  [i \in 1..Len(keys) |->
                 <<QUOTE>> \o EncodeString(keys[i], DefaultOptions) \o <<QUOTE>>
                 \o <<COLON, SPACE>> \o layout(v.objectValue[keys[i]])]

\* the rendering of a container on one line, its members on one line too
RECURSIVE SingleLine(_)
SingleLine(v) ==
    IF ~IsContainer(v) THEN ToEncoding(CopyFrom(v), DefaultOptions).text
    ELSE Opening(v) \o Join(MembersLaidOut(v, SingleLine), <<COMMA, SPACE>>) \o Closing(v)

\* the rendering of a container over several lines
MultiLine(v, members, depth, spaces) ==
    Opening(v) \o CRLF
    \o Join([i \in 1..Len(members) |-> Spaces((depth + 1) * spaces) \o members[i]],
            <<COMMA>> \o CRLF)
    \o CRLF \o Spaces(depth * spaces) \o Closing(v)

\* the single-line form of v at this depth exceeds the threshold
ExceedsThreshold(v, depth, options) ==
    depth * options.spacesPerIndentationLevel + Len(SingleLine(v)) > options.wrapThreshold

\* layout in which each level is wrapped when its own single-line form
\* exceeds the threshold, whatever its members do
RECURSIVE LevelByLevel(_, _, _)
LevelByLevel(v, depth, options) ==
    IF ~IsContainer(v) THEN SingleLine(v)
    ELSE LET member(x) == LevelByLevel(x, depth + 1, options)
             members == MembersLaidOut(v, member)
         IN  IF ExceedsThreshold(v, depth, options)
             THEN MultiLine(v, members, depth, options.spacesPerIndentationLevel)
             ELSE Opening(v) \o Join(members, <<COMMA, SPACE>>) \o Closing(v)

\* v is wrapped: its single-line form exceeds the threshold or one of its
\* members is wrapped
RECURSIVE Wraps(_, _, _)
Wraps(v, depth, options) ==
    /\ IsContainer(v)
    /\ \/ ExceedsThreshold(v, depth, options)
       \/ GetType(v) = "Array"
          /\ \E i \in 1..Len(v.arrayValue) : Wraps(v.arrayValue[i], depth + 1, options)
       \/ GetType(v) = "Object"
          /\ \E k \in DOMAIN v.objectValue : Wraps(v.objectValue[k], depth + 1, options)

RECURSIVE Layout(_, _, _)
Layout(v, depth, options) ==
    IF ~Wraps(v, depth, options) THEN SingleLine(v)
    ELSE LET member(x) == Layout(x, depth + 1, options)
         IN  MultiLine(v, MembersLaidOut(v, member), depth, options.spacesPerIndentationLevel)

\* C19: with pretty and reencode set, an array or object at depth d is
\* rendered over several lines exactly when d * spacesPerIndentationLevel
\* plus the length of its single-line form exceeds wrapThreshold or one of
\* its members is rendered over several lines; the multi-line form is the
\* opening bracket, CRLF, the members indented by (d + 1) levels and
\* separated by "," CRLF, CRLF and the closing bracket indented by d levels.
C19_PrettyPrinting ==
    pc = "encoded" => encoded = Layout(original, 0, last.options)

\* [1,[2,3],4,[5,6,7]] at threshold 10 and 4 spaces: the outer array and
\* [5, 6, 7] are wrapped, [2, 3] is not
C19_Witness ==
    /\ pc = "encoded"
    /\ SingleLine(original) = <<91, 49, 44, 32, 91, 50, 44, 32, 51, 93, 44, 32, 52, 44, 32,
                                91, 53, 44, 32, 54, 44, 32, 55, 93, 93>>
    /\ last.options.wrapThreshold = 10 /\ last.options.spacesPerIndentationLevel = 4
    /\ encoded = <<91, 13, 10>> \o Spaces(4) \o <<49, 44, 13, 10>>
                 \o Spaces(4) \o <<91, 50, 44, 32, 51, 93, 44, 13, 10>>
                 \o Spaces(4) \o <<52, 44, 13, 10>>
                 \o Spaces(4) \o <<91, 13, 10>>
                 \o Spaces(8) \o <<53, 44, 13, 10>>
                 \o Spaces(8) \o <<54, 44, 13, 10>>
                 \o Spaces(8) \o <<55, 13, 10>>
                 \o Spaces(4) \o <<93, 13, 10, 93>>

\* C19 as stated: each level is wrapped exactly when its own single-line
\* form exceeds the threshold, independently of the other levels
C19_EachLevelIndependently ==
    pc = "encoded" => encoded = LevelByLevel(original, 0, last.options)

----------------------------------------------------------------------------
(* Property of failed decodes, checked under SpecDecode *)

\* t without its leading and trailing space, tab, CR and LF
RECURSIVE WithoutBlanks(_)
WithoutBlanks(t) ==
    IF t = <<>> THEN <<>>
    ELSE IF Head(t) \in {32, 9, 13, 10} THEN WithoutBlanks(Tail(t))
    ELSE IF t[Len(t)] \in {32, 9, 13, 10} THEN WithoutBlanks(SubSeq(t, 1, Len(t) - 1))
    ELSE t

\* C20: when FromEncoding returns an Invalid Value, its ToEncoding under any
\* options is "(Invalid JSON: ", the input without its leading and trailing
\* space, tab, CR and LF, and ")"; an empty or blank input gives an Invalid
\* Value rendered "(Invalid JSON: )".
C20_FailureKeepsText ==
    pc = "encoded"
    => /\ GetType(value) = "Invalid"
          => encoded = InvalidPrefix \o WithoutBlanks(text) \o InvalidSuffix
       /\ WithoutBlanks(text) = <<>>
          => /\ GetType(value) = "Invalid"
             /\ encoded = InvalidPrefix \o InvalidSuffix

----------------------------------------------------------------------------
(* Property of the totality of FromEncoding, checked under SpecDecode *)

\* C21: FromEncoding returns a Value for every text; for the text made of a
\* single double quote the Value returned is Invalid.
C21_FromEncodingIsTotal ==
    /\ pc # "threw"
    /\ (pc \in {"decoded", "encoded"} /\ WithoutBlanks(text) = <<QUOTE>>)
       => GetType(value) = "Invalid"

----------------------------------------------------------------------------
(* Property of the \u escapes, checked under SpecEscapes *)

\* n as exactly four upper-case hexadecimal digits, n < 0x10000
UpperHexDigit(d) == IF d < 10 THEN 48 + d ELSE 55 + d
FourUpperHex(n) ==
    <<UpperHexDigit(n \div 4096), UpperHexDigit((n \div 256) % 16),
      UpperHexDigit((n \div 16) % 16), UpperHexDigit(n % 16)>>

HighHalf(cp) == 55296 + ((cp - 65536) \div 1024)
LowHalf(cp) == 56320 + ((cp - 65536) % 1024)

\* the escape of one code point under escapeNonAscii
EscapeOf(cp) ==
    IF cp < 128 THEN <<cp>>
    ELSE IF cp <= 65535 THEN <<92, 117>> \o FourUpperHex(cp)
    ELSE <<92, 117>> \o FourUpperHex(HighHalf(cp)) \o <<92, 117>> \o FourUpperHex(LowHalf(cp))

RECURSIVE EscapesOf(_)
EscapesOf(str) == IF str = <<>> THEN <<>> ELSE EscapeOf(Head(str)) \o EscapesOf(Tail(str))

\* C22: with escapeNonAscii, a code point of 0x10000..0x10FFFF is written
\* \uHHHH\uLLLL with H = 0xD800 + ((cp - 0x10000) >> 10) in D800..DBFF and
\* L = 0xDC00 + ((cp - 0x10000) & 0x3FF) in DC00..DFFF, a code point of
\* 0x80..0xFFFF is written as one \uXXXX, the digits being four upper-case
\* hexadecimal digits, and decoding the text gives the code points back.
C22_SurrogatePairArithmetic ==
    (pc \in {"rendered", "reparsed"} /\ last.options.escapeNonAscii)
    => /\ text = <<QUOTE>> \o EscapesOf(original.stringValue) \o <<QUOTE>>
       /\ \A i \in 1..Len(original.stringValue) :
             original.stringValue[i] > 65535
             => /\ HighHalf(original.stringValue[i]) \in 55296..56319
                /\ LowHalf(original.stringValue[i]) \in 56320..57343
       /\ pc = "reparsed"
          => /\ GetType(value) = "String"
             /\ value.stringValue = original.stringValue

\* U+233B4 written \uD84C\uDFB4 and read back
C22_Witness ==
    /\ pc = "reparsed" /\ last.options.escapeNonAscii
    /\ original.stringValue = <<144308>>
    /\ text = <<34, 92, 117, 68, 56, 52, 67, 92, 117, 68, 70, 66, 52, 34>>
    /\ value.stringValue = <<144308>>

\* C22 as stated: the arithmetic above, and U+23AB4 written \uD84C\uDFB4
C22_ExampleOfTheStatement ==
    /\ C22_SurrogatePairArithmetic
    /\ (pc = "rendered" /\ last.options.escapeNonAscii /\ original.stringValue = <<146100>>)
       => text = <<34, 92, 117, 68, 56, 52, 67, 92, 117, 68, 70, 66, 52, 34>>

----------------------------------------------------------------------------
(* Property of Value(size_t), checked under SpecSizes *)

\* the size is at most 2^31 - 1
FitsInt(words) == words[1] = 0 /\ words[2] = 0 /\ words[3] < 32768

\* C23: for every size_t n, Value(n) is an Integer, (int)Value(n) >= 0 and
\* its encoding has no leading '-'; for n <= 2^31 - 1 the stored value and
\* (size_t)Value(n) equal n.
C23_SizeIsNeverNegative ==
    pc = "converted"
    => /\ GetType(slots["a"]) = "Integer"
       /\ last.asInt >= 0
       /\ Head(encoded) # MINUS
       /\ FitsInt(last.n)
          => /\ last.asSize = last.n
             /\ slots["a"].integerValue = last.n[3] * 65536 + last.n[4]

----------------------------------------------------------------------------
(* Properties of the scanner, checked under SpecDecode *)

\* the positions of t holding a double quote that no backslash escapes
RECURSIVE UnescapedQuotes(_, _, _)
UnescapedQuotes(t, i, escaped) ==
    IF i > Len(t) THEN {}
    ELSE IF escaped THEN UnescapedQuotes(t, i + 1, FALSE)
    ELSE IF t[i] = BACKSLASH THEN UnescapedQuotes(t, i + 1, TRUE)
    ELSE IF t[i] = QUOTE THEN {i} \cup UnescapedQuotes(t, i + 1, FALSE)
    ELSE UnescapedQuotes(t, i + 1, FALSE)

\* t is one string literal: it opens with a quote and its only other
\* unescaped quote is its last character
IsStringLiteral(t) == Len(t) >= 2 /\ UnescapedQuotes(t, 1, FALSE) = {1, Len(t)}

HasEscapedQuote(t) == \E i \in 2..Len(t) : t[i] = QUOTE /\ i \notin UnescapedQuotes(t, 1, FALSE)

\* C24: in the inner text of an array, a double quote preceded by an odd
\* number of backslashes does not end its string: an array text holding one
\* string literal decodes to an Array of that single String, whatever ','
\* or ':' follows the escaped quote (["a\",b"] holds the String a",b).
C24_EscapedQuoteStaysInString ==
    (pc = "decoded" /\ IsBracketed(text) /\ text[1] = LBRACKET /\ IsStringLiteral(Inside(text))
       /\ HasEscapedQuote(Inside(text)))
    => /\ GetType(value) = "Array"
       /\ GetSize(value) = 1
       /\ GetType(value.arrayValue[1]) = "String"
       /\ \A castOk \in BOOLEAN :
             value.arrayValue[1].stringValue = FromEncoding(Inside(text), castOk).stringValue

----------------------------------------------------------------------------
(* Property of ParseValue, checked under SpecScan *)

\* what is open before position i of t when reading starts at position from:
\* the closing characters awaited, innermost first
RECURSIVE OpenBefore(_, _, _)
OpenBefore(t, from, i) ==
    IF i <= from THEN <<>>
    ELSE LET open == OpenBefore(t, from, i - 1)
             cp == t[i - 1]
         IN  IF open # <<>> /\ Head(open) = QUOTE
             THEN (IF cp = QUOTE THEN Tail(open) ELSE open)
             ELSE IF cp = QUOTE THEN <<QUOTE>> \o open
             ELSE IF cp = LBRACKET THEN <<RBRACKET>> \o open
             ELSE IF cp = LBRACE THEN <<RBRACE>> \o open
             ELSE IF open # <<>> /\ cp = Head(open) THEN Tail(open)
             ELSE open

\* the positions from `from` on that hold the delimiter outside every
\* string, array and object
TopLevelDelimiters(t, from, delimiter) ==
    {i \in from..Len(t) : t[i] = delimiter /\ OpenBefore(t, from, i) = <<>>}

Least(positions) == CHOOSE i \in positions : \A j \in positions : i <= j

\* C25: on an inner text without escaped quotes, a call of ParseValue
\* returns the text from the offset up to, and not including, the first
\* delimiter outside every string, array and object, or up to the end of the
\* text, and moves the offset past the member and its delimiter; when a
\* string, array or object opened there is never closed it returns the
\* empty result, leaves the offset alone and the enclosing text decodes to
\* Invalid.
C25_ScannerSplitting ==
    last.op = "ParseValue"
    => LET from == last.from + 1
           found == TopLevelDelimiters(text, from, last.delimiter)
       IN  IF found # {}
           THEN /\ last.encoded = SubSeq(text, from, Least(found) - 1)
                /\ last.offset = Least(found)
           ELSE IF OpenBefore(text, from, Len(text) + 1) = <<>>
           THEN /\ last.encoded = SubSeq(text, from, Len(text))
                /\ last.offset = Len(text)
           ELSE /\ last.encoded = <<>>
                /\ last.offset = last.from
                /\ GetType(value) = "Invalid"

\* the second call on  1,"a,b"  returns "a,b" and ends the text
C25_Witness ==
    /\ last.op = "ParseValue"
    /\ text = <<49, 44, 34, 97, 44, 98, 34>>
    /\ last.from = 2
    /\ last.encoded = <<34, 97, 44, 98, 34>>
    /\ last.offset = 7

----------------------------------------------------------------------------
(* Properties of aliased and moved-from Values, checked under Spec *)

\* C26: s.Insert(std::move(s), i) on an Array s of size n leaves s a valid
\* Array of size n+1 whose element at min(i, n) equals the old s and whose
\* other elements are the old elements in order.
C26_SelfMoveInsert ==
    [][\A s \in DOMAIN slots :
          (/\ steps' = steps + 1
           /\ last'.op = "Insert" /\ last'.move
           /\ last'.target = [slot |-> s, sels |-> <<>>]
           /\ last'.source = last'.target
           /\ GetType(slots[s]) = "Array"
           /\ ~HasNullImpl(slots[s]))
          => /\ fault' = "none"
             /\ GetType(slots'[s]) = "Array"
             /\ slots'[s].arrayValue
                  = InsertAt(slots[s].arrayValue, last'.index, CopyFrom(slots[s]))]_vars

\* C27: a moved-from value stays usable: ToEncoding() on it returns the
\* invalid-marker text, copy-construction and copy-assignment from it give
\* an Invalid value, and Add, Insert, Set and Remove on it change nothing.
C27_MovedFromStaysUsable ==
    [][\A s \in DOMAIN slots :
          (steps' = steps + 1 /\ ~slots[s].impl)
          => /\ (last'.op = "ToEncoding" /\ last'.slot = s)
                => /\ fault' = "none"
                   /\ last'.text = InvalidPrefix \o InvalidSuffix
             /\ (/\ last'.op \in {"Construct", "Assign"} /\ ~last'.move
                 /\ last'.source = [slot |-> s, sels |-> <<>>]
                 /\ last'.target.sels = <<>>
                 /\ last'.target.slot \in DOMAIN slots' \ {s})
                => /\ fault' = "none"
                   /\ GetType(slots'[last'.target.slot]) = "Invalid"
             /\ (/\ last'.op \in {"Add", "Insert", "Set", "Remove"}
                 /\ last'.target = [slot |-> s, sels |-> <<>>])
                => /\ fault' = "none"
                   /\ slots'[s] = slots[s]]_vars

----------------------------------------------------------------------------
(* Property of Set with an aliased argument, checked under SpecSets *)

\* C28: a.Set(k, a) stores under k a value equal to a as it was before the
\* call, and a.Set(k, a[j]) stores a value equal to the old a[j].
C28_SetStoresTheOldValue ==
    last.op = "Set"
    => Equals(slots["a"].objectValue[last.key], Get(last.before, last.argument))

----------------------------------------------------------------------------
(* Property of stray delimiters, checked under SpecDecode *)

\* the inner text ends with a comma, starts with one, or has two commas in
\* a row outside every string, array and object
HasTrailingComma(inner) == inner # <<>> /\ inner[Len(inner)] = COMMA
HasLeadingComma(inner) == inner # <<>> /\ inner[1] = COMMA
HasDoubledComma(inner) ==
    \E i \in TopLevelDelimiters(inner, 1, COMMA) :
       i < Len(inner) /\ inner[i + 1] = COMMA

\* C29: an array or object text whose last member is followed by a comma
\* before the closing bracket decodes to Invalid, as does one with an empty
\* member between two commas or with a leading comma.
C29_NoTrailingDelimiter ==
    (/\ pc = "decoded"
     /\ IsBracketed(text)
     /\ \/ HasTrailingComma(Inside(text))
        \/ HasLeadingComma(Inside(text))
        \/ HasDoubledComma(Inside(text)))
    => GetType(value) = "Invalid"

----------------------------------------------------------------------------
(* Property of wrapped members, checked under SpecPretty *)

\* the containers of the tree of v, each with its depth
RECURSIVE ContainersOf(_, _)
ContainersOf(v, depth) ==
    IF GetType(v) = "Array"
    THEN {[value |-> v, depth |-> depth]}
         \cup UNION {ContainersOf(v.arrayValue[i], depth + 1) : i \in 1..Len(v.arrayValue)}
    ELSE IF GetType(v) = "Object"
    THEN {[value |-> v, depth |-> depth]}
         \cup UNION {ContainersOf(v.objectValue[k], depth + 1) : k \in DOMAIN v.objectValue}
    ELSE {}

\* the text ToEncoding gives for a container at a depth
RenderedAt(v, depth, options) ==
    ToEncoding(CopyFrom(v), [options EXCEPT !.numIndentationLevels = depth]).text

HasLineBreak(rendered) == \E i \in 1..Len(rendered) : rendered[i] \in {CR, LF}
\* the multi-line form starts with the opening bracket and CRLF
IsMultiLine(rendered) == Len(rendered) >= 3 /\ SubSeq(rendered, 2, 3) = CRLF

\* C30: with pretty and reencode set, a container rendered in single-line
\* form holds no member rendered in multi-line form: its text has no CRLF.
C30_WrappingPropagatesUpward ==
    pc = "encoded"
    => /\ encoded = RenderedAt(original, 0, last.options)
       /\ \A c \in ContainersOf(original, 0) :
             \E rendered \in {RenderedAt(c.value, c.depth, last.options)} :
                HasLineBreak(rendered) => IsMultiLine(rendered)

\* a container holding a container is rendered on one line that fills the
\* threshold exactly
C30_Witness ==
    /\ pc = "encoded"
    /\ \E c \in ContainersOf(original, 0) : c.depth = 1 /\ GetSize(c.value) > 0
    /\ ~HasLineBreak(encoded)
    /\ last.options.wrapThreshold = Len(encoded)

====
